---- MODULE Spec2Model ----
(***************************************************************************)
(* Transaction orchestration of the wallet service.                        *)
(*                                                                         *)
(*   SpecPoll    ChainService.submitTransaction / waitConfirmation:        *)
(*               one submission and its confirmation polling.              *)
(*   SpecWallet  WalletService.transferAsset / sendGroup: resolution,      *)
(*               crafting, grouping, signing and submission of a bundle;   *)
(*               transferAlgoToAddress, clawbackAsset and createAsset.     *)
(*   SpecGroup   ChainService.setGroupID on lists of transactions.         *)
(*   SpecConcurrent  transferAsset calls in flight for one receiver.       *)
(*   SpecCraft   the crafters of ChainService and the decoding of what     *)
(*               they return.                                              *)
(*   SpecSetup   the development initialisation of Vault, run repeatedly.  *)
(*                                                                         *)
(* A step of a specification is one awaited call of the handler together   *)
(* with the synchronous code that follows it up to the next await.         *)
(***************************************************************************)
EXTENDS Integers, Sequences, FiniteSets, TLC

VARIABLES
    \* ---- ChainService.submitTransaction / waitConfirmation
    entry,          \* the method the caller invoked
    ppc,            \* position in submitTransaction / waitConfirmation
    waitRounds,     \* parameter waitRounds of waitConfirmation
    startRound,     \* local startRound (-1 before it is read)
    currentRound,   \* local currentRound
    nQueries,       \* pending-status queries issued so far
    nFailed,        \* pending-status queries that threw in the lookup itself
    lastResp,       \* what the last pending-status query gave
    uncaught,       \* the node call outside the try block that failed, if any
    waits,          \* rounds passed to wait-for-block-after, in call order
    wc,             \* how waitConfirmation ended
    submitResult,   \* how submitTransaction ended
    \* ---- WalletService.transferAsset / sendGroup
    op,                   \* the operation invoked
    pc,                   \* position in the operation
    req,                  \* its arguments
    ledger,               \* what the node answers: receiver account, fee, round
    userPublicAddress,
    managerPublicAddress,
    suggested_params,
    account_asset,        \* "unread", "null" or "present"
    willOptInTx,
    willPaymentTx,
    userExtraAlgoNeed,
    users,                \* sendGroup: identities gathered for validation
    unSignedTxs,
    unSignedGroupedTxns,
    signedTxs,
    encodedTransactions,
    i,                    \* index of the running loop
    log,                  \* calls made so far, in order
    posted,               \* body of the POST to v2/transactions, if one was made
    result,               \* "running", "returned" or the error thrown
    \* ---- ChainService.setGroupID called on its own
    gpc,                  \* position in the sequence of calls
    txns,                 \* the list handed to setGroupID
    order,                \* a rearrangement of its positions
    grouped,              \* what setGroupID(txns) returned
    regrouped,            \* what it returned for the same list, group id cleared
    reordered,            \* what it returned for the rearranged list
    \* ---- concurrent transferAsset calls for one receiver, and the ledger
    chain,                \* the receiver's account on the ledger
    transfers,            \* the locals of each call
    applied,              \* the bundles the ledger has judged, in order
    \* ---- a crafter of ChainService called on its own
    craftPc,              \* "call", "crafted", "threw" or "decoded"
    craftCall,            \* the crafter and its arguments
    craftOut,             \* the encoding it returned
    craftError,           \* the error it threw
    craftDecoded,         \* the encoding decoded again
    \* ---- the development initialisation of Vault (main), run repeatedly
    sealKeysFile,         \* whether vault-seal-keys.json exists
    server,               \* what the Vault server holds
    mainPc,               \* position in main; "exited" / "crashed" between runs
    runs,                 \* how many runs were started
    journal               \* the creating requests the server accepted

pollVars == <<entry, ppc, waitRounds, startRound, currentRound, nQueries,
              nFailed, lastResp, uncaught, waits, wc, submitResult>>

taLocals == <<account_asset, willOptInTx, willPaymentTx, userExtraAlgoNeed>>
txLocals == <<unSignedTxs, unSignedGroupedTxns, signedTxs, encodedTransactions>>
addrLocals == <<userPublicAddress, managerPublicAddress>>
walletVars == <<op, pc, req, ledger, addrLocals, suggested_params, taLocals, users,
                txLocals, i, log, posted, result>>

planVars == <<gpc, txns, order, grouped, regrouped, reordered>>

raceVars == <<chain, transfers, applied>>

craftVars == <<craftPc, craftCall, craftOut, craftError, craftDecoded>>

setupVars == <<sealKeysFile, server, mainPc, runs, journal>>

\* what the steps of one component leave alone
nonPollVars == <<walletVars, planVars, raceVars, craftVars, setupVars>>
nonWalletVars == <<pollVars, planVars, raceVars, craftVars, setupVars>>
nonPlanVars == <<pollVars, walletVars, raceVars, craftVars, setupVars>>
nonRaceVars == <<pollVars, walletVars, planVars, craftVars, setupVars>>
nonCraftVars == <<pollVars, walletVars, planVars, raceVars, setupVars>>
nonSetupVars == <<pollVars, walletVars, planVars, raceVars, craftVars>>

vars == <<pollVars, walletVars, planVars, raceVars, craftVars, setupVars>>

(***************************************************************************)
(* Bounds and program constants                                            *)
(***************************************************************************)
\* waitConfirmation(txId, waitRounds = 20n)
DefaultWaitRounds == 20
\* largest waitRounds a direct caller of waitConfirmation passes
MaxWaitRounds == 3
\* largest last-round the node reports
MaxRound == 2

Rounds == 1..MaxRound

(***************************************************************************)
(* ChainService.waitConfirmation and submitTransaction                     *)
(***************************************************************************)
\* JavaScript truthiness of a number / of a string
TruthyNum(n) == n # 0
TruthyStr(s) == s # ""

\* Bodies of v2/transactions/pending/{txId}: confirmedRound 0 and poolError ""
\* stand for a field that is missing, 0 or empty.
PendingInfos == [status: {"ok"}, confirmedRound: 0..1, poolError: {"", "overspend"}]
LookupFailed == [status |-> "fail", confirmedRound |-> 0, poolError |-> ""]
NoResp       == [status |-> "none", confirmedRound |-> 0, poolError |-> ""]

\* What one iteration of the loop does with the answer of the lookup
\* (part_000 lines 243-265): "return", "throw" or "continue".
PollDecisionNoReturn(resp) ==
    IF resp.status = "fail" THEN "continue"
    ELSE IF TruthyStr(resp.poolError) THEN "throw"
    ELSE "continue"

PollDecisionNoRethrow(resp) ==
    IF resp.status = "fail" THEN "continue"
    ELSE IF TruthyNum(resp.confirmedRound) THEN "return"
    ELSE "continue"

PollDecisionPropagate(resp) ==
    IF resp.status = "fail" THEN "throw"
    ELSE IF TruthyNum(resp.confirmedRound) THEN "return"
    ELSE IF TruthyStr(resp.poolError) THEN "throw"
    ELSE "continue"

PollDecisionPoolErrorFirst(resp) ==
    IF resp.status = "fail" THEN "continue"
    ELSE IF TruthyStr(resp.poolError) THEN "throw"
    ELSE IF TruthyNum(resp.confirmedRound) THEN "return"
    ELSE "continue"

PollDecision(resp) ==
    IF resp.status = "fail" THEN "continue"          \* catch: poolError = false
    ELSE IF TruthyNum(resp.confirmedRound) THEN "return"
    ELSE IF TruthyStr(resp.poolError) THEN "throw"   \* poolError = true; rethrown
    ELSE "continue"

\* submitTransaction awaits waitConfirmation and drops what it returns
\* (part_000 lines 374-375); an exception of waitConfirmation propagates.
SubmitOutcome(w) ==
    IF w \in {"returned pendingInfo", "returned undefined"} THEN "returned txid"
    ELSE w

\* waitConfirmation ends with w; when it was called by submitTransaction the
\* caller continues synchronously to its own end.
Finish(w) ==
    /\ ppc' = "done"
    /\ wc' = w
    /\ submitResult' = IF entry = "submitTransaction" THEN SubmitOutcome(w) ELSE "not called"

\* while (currentRound < stopRound)
LoopGuardOffByOne(cr, start, budget) == cr <= start + budget

LoopGuard(cr, start, budget) == cr < start + budget

\* the test of the while loop after currentRound became cr
LoopTest(cr, start) ==
    IF LoopGuard(cr, start, waitRounds)
    THEN /\ ppc' = "poll"
         /\ UNCHANGED <<wc, submitResult>>
    ELSE Finish("returned undefined")

PollInit ==
    /\ entry \in {"submitTransaction", "waitConfirmation"}
    /\ ppc = IF entry = "submitTransaction" THEN "post" ELSE "params"
    /\ waitRounds \in (IF entry = "submitTransaction" THEN {DefaultWaitRounds} ELSE 0..MaxWaitRounds)
    /\ startRound = -1
    /\ currentRound = -1
    /\ nQueries = 0
    /\ nFailed = 0
    /\ lastResp = NoResp
    /\ uncaught = ""
    /\ waits = <<>>
    /\ wc = IF entry = "waitConfirmation" THEN "running" ELSE "not called"
    /\ submitResult = IF entry = "submitTransaction" THEN "running" ELSE "not called"

\* submitTransaction: POST v2/transactions (part_000 lines 368-372)
Post ==
    /\ ppc = "post"
    /\ \E ok \in BOOLEAN :
          IF ok
          THEN /\ ppc' = "params"
               /\ wc' = "running"
               /\ UNCHANGED submitResult
          ELSE /\ ppc' = "done"
               /\ submitResult' = "threw NodeException"
               /\ UNCHANGED wc
    /\ UNCHANGED <<entry, waitRounds, startRound, currentRound, nQueries, nFailed, lastResp, uncaught, waits, nonPollVars>>

\* waitConfirmation: startRound = (await getSuggestedParams()).lastRound
FetchStartRound ==
    /\ ppc = "params"
    /\ \/ \E r \in Rounds :
            /\ startRound' = r
            /\ currentRound' = r
            /\ LoopTest(r, r)
            /\ UNCHANGED uncaught
       \/ /\ Finish("threw NodeException")
          /\ uncaught' = "params"
          /\ UNCHANGED <<startRound, currentRound>>
    /\ UNCHANGED <<entry, waitRounds, nQueries, nFailed, lastResp, waits, nonPollVars>>

\* one pending-status query and the code up to the next await
Poll ==
    /\ ppc = "poll"
    /\ \E resp \in PendingInfos \cup {LookupFailed} :
          /\ lastResp' = resp
          /\ nQueries' = nQueries + 1
          /\ nFailed' = IF resp.status = "fail" THEN nFailed + 1 ELSE nFailed
          /\ CASE PollDecision(resp) = "return"   -> Finish("returned pendingInfo")
               [] PollDecision(resp) = "throw"    -> Finish("threw Transaction Rejected")
               [] PollDecision(resp) = "continue" -> /\ ppc' = "wait"
                                                     /\ UNCHANGED <<wc, submitResult>>
    /\ UNCHANGED <<entry, waitRounds, startRound, currentRound, uncaught, waits, nonPollVars>>

\* an awaited node call outside the try block (part_000 lines 238, 267): its
\* failure leaves waitConfirmation as an exception, nothing catches it
OutsideTryAbsorbed(failed) == "proceed"

OutsideTry(failed) == IF failed THEN "propagate" ELSE "proceed"

\* wait-for-block-after/{currentRound}, currentRound += 1, and the loop test
WaitForBlock ==
    /\ ppc = "wait"
    /\ waits' = Append(waits, currentRound)
    /\ \E failed \in BOOLEAN :
          /\ uncaught' = IF failed THEN "wait-for-block-after" ELSE uncaught
          /\ IF OutsideTry(failed) = "propagate"
             THEN /\ Finish("threw NodeException")
                  /\ UNCHANGED currentRound
             ELSE /\ currentRound' = currentRound + 1
                  /\ LoopTest(currentRound + 1, startRound)
    /\ UNCHANGED <<entry, waitRounds, startRound, nQueries, nFailed, lastResp, nonPollVars>>


(***************************************************************************)
(* Custody (VaultService) and encoding                                     *)
(***************************************************************************)
\* transit mounts VAULT_TRANSIT_USERS_PATH / VAULT_TRANSIT_MANAGERS_PATH and
\* the key VAULT_MANAGER_KEY
UsersPath == "users"
ManagersPath == "managers"
ManagerKey == "manager"

VaultKey(path, name) == [path |-> path, name |-> name]

\* the keys the transit engine holds; each was generated by the engine, so
\* two keys never share their key material
VaultKeys == {VaultKey(UsersPath, "alice"), VaultKey(ManagersPath, ManagerKey)}

\* VaultService.getKey: the public key of a key (keys['1'].public_key)
getKey(name, path) == <<"pk", path, name>>

\* AlgorandEncoder.encodeAddress: injective on public keys
encodeAddress(pk) == <<"addr", pk[2], pk[3]>>

AddressOf(key) == encodeAddress(getKey(key.name, key.path))

\* Buffer.toString('base64') / Buffer.from(s, 'base64')
ToBase64(bytes) == <<"base64", bytes>>
FromBase64(text) == text[2]

\* AlgorandEncoder.encodeTransaction / decodeTransaction: "TX" tag + msgpack
\* of the transaction (a signed transaction is the msgpack of {sig, txn})
encodeTransaction(tx) == [tag |-> "TX", txn |-> tx]
decodeTransaction(bytes) == bytes.txn

\* VaultService.sign: POST {input: base64(data)} to sign/{keyName}; the
\* engine signs the decoded input and answers "vault:v1:<base64 signature>"
sign(keyName, transitPath, data) ==
    LET input == ToBase64(data)
        signature == [signer |-> VaultKey(transitPath, keyName), payload |-> FromBase64(input)]
    IN  <<"vault", "v1", ToBase64(signature)>>

\* how a request to the transit engine fails: the engine answers with an
\* error status, or no answer arrives (connection refused, timeout)
VaultFailures == {"response", "no response"}

\* catch (error) { throw new HttpErrorByCode[error.response.status]('VaultException') }
\* of getKey and sign: without an answer error.response is undefined and
\* reading its status throws a TypeError out of the catch block
VaultThrown(failure) ==
    IF failure = "response" THEN "VaultException" ELSE "TypeError"

\* vaultRawSig.toString().split(':')[2], base64-decoded
UnwrapSignature(vaultRawSig) == FromBase64(vaultRawSig[3])

\* ChainService.addSignatureToTxn: {sig, txn}
addSignatureToTxn(encodedTransaction, signature) ==
    [sig |-> signature, txn |-> decodeTransaction(encodedTransaction)]

signTxAsUser(user_id, tx) == addSignatureToTxn(tx, UnwrapSignature(sign(user_id, UsersPath, tx)))
signTxAsManager(tx) == addSignatureToTxn(tx, UnwrapSignature(sign(ManagerKey, ManagersPath, tx)))
signTxAsNamedManager(manager_name, tx) ==
    addSignatureToTxn(tx, UnwrapSignature(sign(manager_name, ManagersPath, tx)))

(***************************************************************************)
(* ChainService: crafting and grouping                                     *)
(***************************************************************************)
\* userExtraAlgoNeed += 100000
OptInMinBalance == 100000
\* addLastValidRound(lastRound + 1000n)
ValidityWindow == 1000

NoAddress == <<>>
NoGroup == <<>>

\* AlgorandEncoder.decodeAddress: the public key of an address
decodeAddress(address) ==
    IF address = NoAddress THEN NoAddress ELSE <<"pk", address[2], address[3]>>

Txn(type, snd, rcv, amt, xaid, fee, fv, note, lx) ==
    [type |-> type, snd |-> decodeAddress(snd), rcv |-> decodeAddress(rcv),
     asnd |-> NoAddress, amt |-> amt,
     xaid |-> xaid, fee |-> fee, fv |-> fv, lv |-> fv + ValidityWindow,
     note |-> note, lx |-> lx, grp |-> NoGroup]

\* ChainService.parseLease: the bytes of the base64 text; bytes are kept as
\* their number and the canonical base64 text of them
parseLease(lease) ==
    [length |-> CASE lease = "" -> 0
                  [] lease = "lease32" -> 32
                  [] OTHER -> 5,
     base64 |-> lease]

\* a transaction without a lease
NoLease == parseLease("")

\* if (lease) builder.addLease(parseLease(lease)): whether the builder (of the
\* algo-models library) may refuse the bytes; the source only catches what it
\* throws, so for a lease that is not 32 bytes long both outcomes are kept
addLeaseMayThrow(lease) == lease # "" /\ parseLease(lease).length # 32

\* the crafters hand the amount to the builder unexamined: whether the builder
\* or the encoder (of the algo-models library) refuses a negative one is not
\* the source's doing, so both outcomes are kept
encodeMayThrow(amount) == amount < 0

craftPaymentTx(from, to, amount, sp) ==
    encodeTransaction(Txn("pay", from, to, amount, 0, sp.minFee, sp.lastRound, "", NoLease))

\* an asset transfer whose amount is never handed to the builder
craftAssetTransferTxWithoutAmount(from, to, asset_id, amount, lease, note, sp) ==
    encodeTransaction(Txn("axfer", from, to, 0, asset_id, sp.minFee, sp.lastRound,
                          IF note # "" THEN note ELSE "",
                          IF lease # "" THEN parseLease(lease) ELSE NoLease))

\* if (note) addNote(note); if (amount != 0) addAssetAmount(amount);
\* if (lease) addLease(parseLease(lease)): a field not added keeps its default
craftAssetTransferTx(from, to, asset_id, amount, lease, note, sp) ==
    encodeTransaction(Txn("axfer", from, to,
                          IF amount # 0 THEN amount ELSE 0,
                          asset_id, sp.minFee, sp.lastRound,
                          IF note # "" THEN note ELSE "",
                          IF lease # "" THEN parseLease(lease) ELSE NoLease))

craftAssetCreateTx(creatorAddress, sp) ==
    encodeTransaction(Txn("acfg", creatorAddress, NoAddress, 0, 0, sp.minFee, sp.lastRound, "",
                          NoLease))

\* AlgorandEncoder.computeGroupId: a hash of the ordered list of the
\* transactions, modelled by the list itself
computeGroupIdUnordered(list) == <<"TG", {decodeTransaction(list[k]) : k \in 1..Len(list)}>>

computeGroupId(list) == <<"TG", [k \in 1..Len(list) |-> decodeTransaction(list[k])]>>

setGroupIDReversed(list) ==
    LET groupId == computeGroupId(list)
    IN  [k \in 1..Len(list) |->
            encodeTransaction([decodeTransaction(list[Len(list) + 1 - k])
                               EXCEPT !.grp = groupId])]

setGroupID(list) ==
    LET groupId == computeGroupId(list)
    IN  [k \in 1..Len(list) |->
            encodeTransaction([decodeTransaction(list[k]) EXCEPT !.grp = groupId])]


(***************************************************************************)
(* WalletService.transferAsset                                             *)
(***************************************************************************)
\* largest number of members of a sendGroup request
MaxGroup == 2

inputs == <<op, req, ledger>>

SubmitOutcomes == {"returned txid", "threw NodeException", "threw Transaction Rejected"}

Users == {"alice", "nobody"}
AssetIds == {5}
Amounts == {0, 10}
\* "lease32" decodes to 32 bytes, "short" to fewer
Leases == {"", "lease32", "short"}
Notes == {"", "memo"}
Balances == {0, 100000, 150000, 201000, 300000}
MinBalances == {100000, 200000}
MinFees == {1000, 2000}

Ledgers == [holding: BOOLEAN, amount: Balances, minBalance: MinBalances,
            minFee: MinFees, lastRound: Rounds]

NoParams == [minFee |-> 0, lastRound |-> 0]

\* the locals of an operation before its first statement
LocalsInit ==
    /\ userPublicAddress = NoAddress
    /\ managerPublicAddress = NoAddress
    /\ suggested_params = NoParams
    /\ account_asset = "unread"
    /\ willOptInTx = FALSE
    /\ willPaymentTx = FALSE
    /\ userExtraAlgoNeed = 0
    /\ users = <<>>
    /\ unSignedTxs = <<>>
    /\ unSignedGroupedTxns = <<>>
    /\ signedTxs = <<>>
    /\ encodedTransactions = <<>>
    /\ i = 1
    /\ log = <<>>
    /\ posted = <<>>
    /\ result = "running"

\* an exception leaves the operation
Throw(error) ==
    /\ pc' = "done"
    /\ result' = error

\* a query of the node enters the log; one the node did not answer properly
\* (an error status other than the one the caller handles, or no answer) is
\* marked as failed
Asked(query, answered) ==
    log' = log \o <<query>> \o (IF answered THEN <<>> ELSE <<"node.failed">>)

TransferAssetInit ==
    /\ op = "transferAsset"
    /\ pc = "ta_userKey"
    /\ req \in [userId: Users, to: {NoAddress}, assetId: AssetIds, amount: Amounts,
                lease: Leases, note: Notes, transactions: {<<>>}]
    /\ ledger \in Ledgers
    /\ LocalsInit

\* getUserInfo: vaultService.getUserPublicKey(userId)
TAUserKey ==
    /\ pc = "ta_userKey"
    /\ log' = Append(log, "vault.getKey")
    /\ \/ /\ VaultKey(UsersPath, req.userId) \in VaultKeys
          /\ userPublicAddress' = encodeAddress(getKey(req.userId, UsersPath))
          /\ pc' = "ta_userBalance"
          /\ UNCHANGED result
       \/ /\ (\E failure \in VaultFailures : Throw(VaultThrown(failure)))
          /\ UNCHANGED userPublicAddress
    /\ UNCHANGED <<inputs, managerPublicAddress, suggested_params, taLocals, users,
                   txLocals, i, posted, nonWalletVars>>

\* getUserInfo: chainService.getAccountBalance(encodedAddress)
TAUserBalance ==
    /\ pc = "ta_userBalance"
    /\ \/ /\ Asked("node.accountBalance", TRUE)
          /\ pc' = "ta_managerKey"
          /\ UNCHANGED result
       \/ /\ Asked("node.accountBalance", FALSE)
          /\ Throw("NodeException")
    /\ UNCHANGED <<inputs, addrLocals, suggested_params, taLocals, users,
                   txLocals, i, posted, nonWalletVars>>

\* vaultService.getManagerPublicKey
TAManagerKey ==
    /\ pc = "ta_managerKey"
    /\ log' = Append(log, "vault.getKey")
    /\ \/ /\ managerPublicAddress' = encodeAddress(getKey(ManagerKey, ManagersPath))
          /\ pc' = "ta_params"
          /\ UNCHANGED result
       \/ /\ (\E failure \in VaultFailures : Throw(VaultThrown(failure)))
          /\ UNCHANGED managerPublicAddress
    /\ UNCHANGED <<inputs, userPublicAddress, suggested_params, taLocals, users,
                   txLocals, i, posted, nonWalletVars>>

\* ChainService.getSuggestedParams
getSuggestedParams == [minFee |-> ledger.minFee, lastRound |-> ledger.lastRound]

TAParams ==
    /\ pc = "ta_params"
    /\ \/ /\ Asked("node.params", TRUE)
          /\ suggested_params' = getSuggestedParams
          /\ pc' = "ta_accountAsset"
          /\ UNCHANGED result
       \/ /\ Asked("node.params", FALSE)
          /\ Throw("NodeException")
          /\ UNCHANGED suggested_params
    /\ UNCHANGED <<inputs, addrLocals, taLocals, users, txLocals, i, posted, nonWalletVars>>

\* the status of the node's answer to the holding lookup: 200 with a
\* holding, 404 without one, or a failure (0: no answer at all)
AssetLookupStatuses(holding) == {IF holding THEN 200 ELSE 404, 500, 0}

\* the catch block of getAccountAsset: null on a 404, anything else is thrown on
getAccountAssetCatchAll(statusCode) == "null"

getAccountAssetCatch(statusCode) == IF statusCode = 404 THEN "null" ELSE "threw"

\* ChainService.getAccountAsset: {} when the node answers, null on a 404
getAccountAssetInverted(holding) == IF holding THEN "null" ELSE "present"

getAccountAsset(holding) == IF holding THEN "present" ELSE getAccountAssetCatch(404)

\* willOptInTx = (account_asset == null)
WillOptIn(asset) == asset = "null"

\* opt-in min balance + opt-in tx fee, when an opt-in is added
ExtraAlgoNeedWithoutFee(optIn, minFee) == IF optIn THEN OptInMinBalance ELSE 0

ExtraAlgoNeed(optIn, minFee) == IF optIn THEN OptInMinBalance + minFee ELSE 0

TAAccountAsset ==
    /\ pc = "ta_accountAsset"
    /\ \E status \in AssetLookupStatuses(ledger.holding) :
          LET answer == IF status \in {200, 404} THEN getAccountAsset(ledger.holding)
                                                 ELSE getAccountAssetCatch(status)
          IN  /\ Asked("node.accountAsset", status \in {200, 404})
              /\ IF answer = "threw"
                 THEN /\ Throw("NodeException")
                      /\ UNCHANGED <<account_asset, willOptInTx, userExtraAlgoNeed>>
                 ELSE /\ account_asset' = answer
                      /\ willOptInTx' = WillOptIn(account_asset')
                      /\ userExtraAlgoNeed' = ExtraAlgoNeed(willOptInTx', suggested_params.minFee)
                      /\ pc' = "ta_accountDetail"
                      /\ UNCHANGED result
    /\ UNCHANGED <<inputs, addrLocals, suggested_params, willPaymentTx, users,
                   txLocals, i, posted, nonWalletVars>>

\* userOwnedExtraAlgo < userExtraAlgoNeed
NeedsPaymentInclusive(owned, need) == owned <= need

NeedsPayment(owned, need) == owned < need

\* the unsigned transactions of transferAsset, in the order they are pushed
TAUnsignedOptInFirst(payment, paymentAmount, optIn) ==
    (IF optIn
     THEN <<craftAssetTransferTx(userPublicAddress, userPublicAddress, req.assetId, 0,
                                 req.lease, "", suggested_params)>>
     ELSE <<>>)
    \o (IF payment
        THEN <<craftPaymentTx(managerPublicAddress, userPublicAddress, paymentAmount,
                              suggested_params)>>
        ELSE <<>>)
    \o <<craftAssetTransferTx(managerPublicAddress, userPublicAddress, req.assetId,
                              req.amount, req.lease, req.note, suggested_params)>>

TAUnsigned(payment, paymentAmount, optIn) ==
    (IF payment
     THEN <<craftPaymentTx(managerPublicAddress, userPublicAddress, paymentAmount,
                           suggested_params)>>
     ELSE <<>>)
    \o (IF optIn
        THEN <<craftAssetTransferTx(userPublicAddress, userPublicAddress, req.assetId, 0,
                                    req.lease, "", suggested_params)>>
        ELSE <<>>)
    \o <<craftAssetTransferTx(managerPublicAddress, userPublicAddress, req.assetId,
                              req.amount, req.lease, req.note, suggested_params)>>

Repeat(n, x) == [k \in 1..n |-> x]

\* getAccountDetail, the funding decision, crafting and setGroupID
\* userOwnedExtraAlgo: a bigint difference, signed and of unbounded width; an
\* unsigned difference, which wraps to a huge amount below zero, is what the
\* code does not compute (the width stands for that of an unsigned word)
UnsignedWidth == 2 ^ 30

OwnedExtraAlgoUnsigned(amount, minBalance) == (amount - minBalance) % UnsignedWidth

OwnedExtraAlgo(amount, minBalance) == amount - minBalance

TAAccountDetail ==
    /\ pc = "ta_accountDetail"
    /\ \/ LET userOwnedExtraAlgo == OwnedExtraAlgo(ledger.amount, ledger.minBalance)
              payment == NeedsPayment(userOwnedExtraAlgo, userExtraAlgoNeed)
              need == IF payment THEN userExtraAlgoNeed - userOwnedExtraAlgo
                                 ELSE userExtraAlgoNeed
              txs == TAUnsigned(payment, need, willOptInTx)
          IN  /\ willPaymentTx' = payment
              /\ userExtraAlgoNeed' = need
              /\ \/ /\ unSignedTxs' = txs
                    /\ unSignedGroupedTxns' = setGroupID(txs)
                    /\ log' = log \o <<"node.accountDetail">> \o Repeat(Len(txs), "craft")
                                  \o <<"group">>
                    /\ i' = 1
                    /\ pc' = "ta_sign"
                    /\ UNCHANGED result
                 \/ \* the first craftAssetTransferTx throws on the lease
                    /\ addLeaseMayThrow(req.lease)
                    /\ unSignedTxs' = SubSeq(txs, 1, IF payment THEN 1 ELSE 0)
                    /\ log' = log \o <<"node.accountDetail">>
                                  \o Repeat(Len(unSignedTxs'), "craft")
                    /\ Throw("Invalid lease format")
                    /\ UNCHANGED <<unSignedGroupedTxns, i>>
       \/ /\ Throw("NodeException")
          /\ Asked("node.accountDetail", FALSE)
          /\ UNCHANGED <<willPaymentTx, userExtraAlgoNeed, unSignedTxs, unSignedGroupedTxns, i>>
    /\ UNCHANGED <<inputs, addrLocals, suggested_params, account_asset, willOptInTx, users,
                   signedTxs, encodedTransactions, posted, nonWalletVars>>

\* which signer transferAsset picks for a member, by its decoded sender
TASignerAlwaysManager(tx) == "manager"

TASigner(tx) ==
    LET sender == encodeAddress(decodeTransaction(tx).snd)
    IN  IF sender = userPublicAddress THEN "user"
        ELSE IF sender = managerPublicAddress THEN "manager"
        ELSE "invalid"

\* the payload handed to the signer for member k of the bundle
TAPayloadUngrouped(k) == unSignedTxs[k]

TAPayload(k) == unSignedGroupedTxns[k]

\* for (let tx of unSignedGroupedTxns): one member signed
TASign ==
    /\ pc = "ta_sign"
    /\ i <= Len(unSignedGroupedTxns)
    /\ LET tx == TAPayload(i)
           signer == TASigner(unSignedGroupedTxns[i])
       IN  \/ /\ signer = "invalid"
              /\ Throw("Invalid sender")
              /\ UNCHANGED <<signedTxs, i, log>>
           \/ /\ signer # "invalid"
              /\ log' = Append(log, "vault.sign")
              /\ \/ /\ signedTxs' = Append(signedTxs,
                                           IF signer = "user" THEN signTxAsUser(req.userId, tx)
                                                              ELSE signTxAsManager(tx))
                    /\ i' = i + 1
                    /\ pc' = IF i = Len(unSignedGroupedTxns) THEN "ta_submit" ELSE "ta_sign"
                    /\ UNCHANGED result
                 \/ /\ (\E failure \in VaultFailures : Throw(VaultThrown(failure)))
                    /\ UNCHANGED <<signedTxs, i>>
    /\ UNCHANGED <<inputs, addrLocals, suggested_params, taLocals, users, unSignedTxs,
                   unSignedGroupedTxns, encodedTransactions, posted, nonWalletVars>>

\* the error of submitTransaction as the wallet sees it: the exception itself
Surface(outcome) ==
    CASE outcome = "threw NodeException" -> "NodeException"
      [] outcome = "threw Transaction Rejected" -> "Transaction Rejected"
      [] OTHER -> outcome

\* a submission that is made again when it did not end with a transaction id
SubmittedAgain(outcome, accepted, end) ==
    /\ outcome \in {"returned txid", "threw Transaction Rejected"} => accepted
    /\ signedTxs = <<>> => ~accepted
    /\ log' = log \o <<"node.submit">>
                  \o (IF accepted THEN <<"node.confirmation">> ELSE <<>>)
                  \o (IF outcome = "returned txid" THEN <<>> ELSE <<"node.submit">>)
    /\ posted' = signedTxs
    /\ pc' = "done"
    /\ result' = IF outcome = "returned txid" THEN "returned" ELSE end

\* chainService.submitTransaction(signedTxs): the POST and its confirmation.
\* "node.submit" is the POST; "node.confirmation" says that the node took the
\* bundle and waitConfirmation began (a NodeException comes from either call).
Submitted(outcome, accepted, end) ==
    /\ outcome \in {"returned txid", "threw Transaction Rejected"} => accepted
    \* the node takes no empty body
    /\ signedTxs = <<>> => ~accepted
    /\ log' = log \o <<"node.submit">> \o (IF accepted THEN <<"node.confirmation">> ELSE <<>>)
    /\ posted' = signedTxs
    /\ pc' = "done"
    /\ result' = IF outcome = "returned txid" THEN "returned" ELSE end

SubmitSigned(nextPc) ==
    /\ pc = nextPc
    /\ \E outcome \in SubmitOutcomes, accepted \in BOOLEAN :
          Submitted(outcome, accepted, Surface(outcome))
    /\ UNCHANGED <<inputs, addrLocals, suggested_params, taLocals, users, txLocals, i,
                   nonWalletVars>>

TASubmit == SubmitSigned("ta_submit")

TransferAssetNext ==
    \/ TAUserKey \/ TAUserBalance \/ TAManagerKey \/ TAParams
    \/ TAAccountAsset \/ TAAccountDetail \/ TASign \/ TASubmit



(***************************************************************************)
(* WalletService.sendGroup                                                 *)
(***************************************************************************)
NoUser == [id |-> "", public_address |-> NoAddress, type |-> ""]
User(id, type, key) == [id |-> id, public_address |-> AddressOf(key), type |-> type]

Alice == User("alice", "user", VaultKey(UsersPath, "alice"))
\* alice claiming the address of the manager key
AliceSpoofing == User("alice", "user", VaultKey(ManagersPath, ManagerKey))
Manager == User(ManagerKey, "manager", VaultKey(ManagersPath, ManagerKey))
\* a sender whose type is neither 'user' nor 'manager': the type union is not
\* enforced inside the service, whose signing loop has a branch for this case
Stranger == User(ManagerKey, "auditor", VaultKey(ManagersPath, ManagerKey))

Senders == {Alice, AliceSpoofing, Manager, Stranger}
Receivers == {Alice, AliceSpoofing}
Fees == {1000}

\* the Transaction DTO: type, fee and txn (sender, receiver, assetId, amount).
\* "unknown" stands for any type outside the three the crafting loop handles
\* (the DTO's own Transform falls through to `return value` for such a type)
Members ==
    [type: {"algo_transfer", "asset_transfer"}, fee: Fees, sender: Senders,
     receiver: Receivers, assetId: AssetIds, amount: {10}]
    \cup [type: {"create_asset", "unknown"}, fee: Fees, sender: Senders,
          receiver: {NoUser}, assetId: {0}, amount: {0}]

Groups == UNION {[1..n -> Members] : n \in 0..MaxGroup}

SendGroupInit ==
    /\ op = "sendGroup"
    /\ req \in [userId: {""}, to: {NoAddress}, assetId: {0}, amount: {0}, lease: {""},
                note: {""}, transactions: Groups]
    /\ pc = IF Len(req.transactions) = 0 THEN "sg_params" ELSE "sg_resolve"
    /\ ledger \in [holding: {FALSE}, amount: {0}, minBalance: {0}, minFee: MinFees,
                   lastRound: Rounds]
    /\ LocalsInit

\* the transit mount a declared identity is looked up in
PathOf(user) == IF user.type = "user" THEN UsersPath ELSE ManagersPath

\* the entry pushed to users: declared identity and the address custody gives
Resolved(user) ==
    [id |-> user.id, public_address |-> user.public_address, type |-> user.type,
     actual_address |-> encodeAddress(getKey(user.id, PathOf(user)))]

\* users.every((user) => user.actual_address === user.public_address)
areUsersValidAlways(us) == TRUE

areUsersValid(us) == \A k \in 1..Len(us) : us[k].actual_address = us[k].public_address

\* what one member adds to users: its sender and, if it has one, its receiver
UsersOfSenderOnly(tx) == <<Resolved(tx.sender)>>

UsersOf(tx) ==
    IF tx.receiver # NoUser THEN <<Resolved(tx.sender), Resolved(tx.receiver)>>
                            ELSE <<Resolved(tx.sender)>>

\* first loop of sendGroup, one member: the public keys of its sender and of
\* its receiver are fetched; after the last member the users are validated
SGResolve ==
    /\ pc = "sg_resolve"
    /\ LET tx == req.transactions[i]
           hasReceiver == tx.receiver # NoUser
           found == UsersOf(tx)
       IN  \/ /\ VaultKey(PathOf(tx.sender), tx.sender.id) \in VaultKeys
              /\ hasReceiver => VaultKey(PathOf(tx.receiver), tx.receiver.id) \in VaultKeys
              /\ log' = log \o Repeat(Len(found), "vault.getKey")
              /\ users' = users \o found
              /\ IF i < Len(req.transactions)
                 THEN /\ i' = i + 1
                      /\ UNCHANGED <<pc, result>>
                 ELSE /\ i' = 1
                      /\ IF areUsersValid(users')
                         THEN /\ pc' = "sg_params"
                              /\ UNCHANGED result
                         ELSE Throw("Invalid users")
           \/ \E calls \in 1..Len(found) :
                 /\ log' = log \o Repeat(calls, "vault.getKey")
                 /\ (\E failure \in VaultFailures : Throw(VaultThrown(failure)))
                 /\ UNCHANGED <<users, i>>
    /\ UNCHANGED <<inputs, addrLocals, suggested_params, taLocals, txLocals, posted, nonWalletVars>>

\* setGroupID has no test of its own for an empty list: whether it fails then
\* is up to computeGroupId of the algo-models library, so both outcomes are kept
computeGroupIdMayThrow(list) == Len(list) = 0

\* after the last member is crafted (calls: what the last iteration called):
\* setGroupID, and the signing loop starts
Grouped(txs, calls) ==
    /\ unSignedTxs' = txs
    /\ \/ /\ unSignedGroupedTxns' = setGroupID(txs)
          /\ log' = log \o calls \o <<"group">>
          /\ i' = 1
          /\ pc' = IF Len(txs) = 0 THEN "sg_submit" ELSE "sg_sign"
          /\ UNCHANGED result
       \/ /\ computeGroupIdMayThrow(txs)
          /\ log' = log \o calls
          /\ Throw("computeGroupId failed")
          /\ UNCHANGED <<unSignedGroupedTxns, i>>

\* getSuggestedParams after the validation
SGParams ==
    /\ pc = "sg_params"
    /\ \/ /\ suggested_params' = getSuggestedParams
          /\ IF Len(req.transactions) = 0
             THEN Grouped(<<>>, <<"node.params">>)
             ELSE /\ pc' = "sg_craft"
                  /\ i' = 1
                  /\ log' = Append(log, "node.params")
                  /\ UNCHANGED <<unSignedTxs, unSignedGroupedTxns, result>>
       \/ /\ Throw("NodeException")
          /\ Asked("node.params", FALSE)
          /\ UNCHANGED <<suggested_params, unSignedTxs, unSignedGroupedTxns, i>>
    /\ UNCHANGED <<inputs, addrLocals, taLocals, users, signedTxs, encodedTransactions,
                   posted, nonWalletVars>>

\* algosdk.makeAssetTransferTxnWithSuggestedParamsFromObject(...).bytesToSign()
\* with flatFee and the parameters sugp fetched for this member
makeAssetTransferTxn(txn, fee, firstValid) ==
    encodeTransaction(Txn("axfer", txn.sender.public_address, txn.receiver.public_address,
                          txn.amount, txn.assetId, fee, firstValid, "", NoLease))

\* second loop of sendGroup, one member crafted by its type
SGCraft ==
    /\ pc = "sg_craft"
    /\ LET tx == req.transactions[i]
           sp == [suggested_params EXCEPT !.minFee = tx.fee]
           last == i = Len(req.transactions)
           Pushed(txs, calls) ==
               IF last
               THEN Grouped(txs, calls)
               ELSE /\ unSignedTxs' = txs
                    /\ i' = i + 1
                    /\ log' = log \o calls
                    /\ UNCHANGED <<pc, unSignedGroupedTxns, result>>
       IN  \/ /\ tx.type = "algo_transfer"
              /\ Pushed(Append(unSignedTxs,
                               craftPaymentTx(tx.sender.public_address,
                                              tx.receiver.public_address, tx.amount, sp)),
                        <<"craft">>)
           \/ /\ tx.type = "asset_transfer"
              /\ \/ \E round \in {ledger.lastRound, ledger.lastRound + 1} :
                       Pushed(Append(unSignedTxs, makeAssetTransferTxn(tx, tx.fee, round)),
                              <<"node.params", "craft">>)
                 \/ /\ Throw("NodeException")
                    /\ Asked("node.params", FALSE)
                    /\ UNCHANGED <<unSignedTxs, unSignedGroupedTxns, i>>
           \/ /\ tx.type = "create_asset"
              /\ Pushed(Append(unSignedTxs, craftAssetCreateTx(tx.sender.public_address, sp)),
                        <<"craft">>)
           \/ /\ tx.type \notin {"algo_transfer", "asset_transfer", "create_asset"}
              /\ Pushed(unSignedTxs, <<>>)
    /\ UNCHANGED <<inputs, addrLocals, suggested_params, taLocals, users, signedTxs,
                   encodedTransactions, posted, nonWalletVars>>

\* which signer sendGroup picks for member k, by the declared sender type
SGSigner(sender) ==
    IF sender.type = "user" THEN "user"
    ELSE IF sender.type = "manager" THEN "manager"
    ELSE "invalid"

\* the payload handed to the signer for member k of the group
SGPayload(k) == unSignedGroupedTxns[k]

\* the input specification the signing loop pairs with grouped transaction k:
\* group.transactions[i].txn
orgTxOfFirst(k) == req.transactions[1]

orgTx(k) == req.transactions[k]

\* third loop of sendGroup, one member signed
SGSign ==
    /\ pc = "sg_sign"
    /\ i <= Len(unSignedGroupedTxns)
    /\ LET tx == SGPayload(i)
           sender == orgTx(i).sender
           signer == SGSigner(sender)
       IN  \/ /\ signer = "invalid"
              /\ Throw("Invalid sender")
              /\ UNCHANGED <<signedTxs, encodedTransactions, i, log>>
           \/ /\ signer # "invalid"
              /\ log' = Append(log, "vault.sign")
              /\ \/ /\ VaultKey(PathOf(sender), sender.id) \in VaultKeys
                    /\ signedTxs' = Append(signedTxs,
                                           IF signer = "user"
                                           THEN signTxAsUser(sender.id, tx)
                                           ELSE signTxAsNamedManager(sender.id, tx))
                    /\ encodedTransactions' = Append(encodedTransactions,
                                                     ToBase64(unSignedGroupedTxns[i]))
                    /\ i' = i + 1
                    /\ pc' = IF i = Len(unSignedGroupedTxns) THEN "sg_submit" ELSE "sg_sign"
                    /\ UNCHANGED result
                 \/ /\ (\E failure \in VaultFailures : Throw(VaultThrown(failure)))
                    /\ UNCHANGED <<signedTxs, encodedTransactions, i>>
    /\ UNCHANGED <<inputs, addrLocals, suggested_params, taLocals, users, unSignedTxs,
                   unSignedGroupedTxns, posted, nonWalletVars>>

SGSubmit == SubmitSigned("sg_submit")

SendGroupNext == SGResolve \/ SGParams \/ SGCraft \/ SGSign \/ SGSubmit


(***************************************************************************)
(* WalletService.transferAlgoToAddress, clawbackAsset and createAsset:     *)
(* one transaction, signed and submitted on its own                        *)
(***************************************************************************)
\* an address no key of the transit engine belongs to
ExternalAddress == <<"addr", "external", "carol">>
AlgoSenders == Users \cup {"manager"}
AlgoReceivers == {AddressOf(VaultKey(UsersPath, "alice")), ExternalAddress}

\* the node of the single-transaction operations: fee and round matter
PlainLedgers == [holding: {FALSE}, amount: {0}, minBalance: {0}, minFee: MinFees,
                 lastRound: Rounds]

\* throw new Error(`Failed to get from address for user ...: ${error.message}`)
FailedToGetFrom(message) ==
    CASE message = "VaultException" -> "Failed to get from address: VaultException"
      [] message = "TypeError" -> "Failed to get from address: TypeError"
      [] message = "NodeException" -> "Failed to get from address: NodeException"

\* throw new Error(`Failed to sign transaction as user ...: ${error.message}`)
FailedToSign(message) ==
    CASE message = "VaultException" -> "Failed to sign transaction: VaultException"
      [] message = "TypeError" -> "Failed to sign transaction: TypeError"
      [] message = "NodeException" -> "Failed to sign transaction: NodeException"
      [] message = "Transaction Rejected" -> "Failed to sign transaction: Transaction Rejected"

TransferAlgoInit ==
    /\ op = "transferAlgoToAddress"
    /\ pc = "algo_fromKey"
    /\ req \in [userId: AlgoSenders, to: AlgoReceivers, assetId: {0}, amount: Amounts,
                lease: Leases, note: Notes, transactions: {<<>>}]
    /\ ledger \in PlainLedgers
    /\ LocalsInit

isManager == req.userId = "manager"

\* the test of the second try block, which picks the signer
signsAsManagerAlways == TRUE

signsAsManager == req.userId = "manager"

\* fromAddress
fromAddress == IF isManager THEN managerPublicAddress ELSE userPublicAddress

\* first try block: getManagerPublicKey, or getUserInfo's key lookup
AlgoFromKey ==
    /\ pc = "algo_fromKey"
    /\ log' = Append(log, "vault.getKey")
    /\ \/ /\ isManager
          /\ managerPublicAddress' = encodeAddress(getKey(ManagerKey, ManagersPath))
          /\ pc' = "algo_craft"
          /\ UNCHANGED <<userPublicAddress, result>>
       \/ /\ ~isManager
          /\ VaultKey(UsersPath, req.userId) \in VaultKeys
          /\ userPublicAddress' = encodeAddress(getKey(req.userId, UsersPath))
          /\ pc' = "algo_fromBalance"
          /\ UNCHANGED <<managerPublicAddress, result>>
       \/ /\ (\E failure \in VaultFailures : Throw(FailedToGetFrom(VaultThrown(failure))))
          /\ UNCHANGED addrLocals
    /\ UNCHANGED <<inputs, suggested_params, taLocals, users, txLocals, i, posted,
                   nonWalletVars>>

\* first try block: getUserInfo's getAccountBalance
AlgoFromBalance ==
    /\ pc = "algo_fromBalance"
    /\ \/ /\ Asked("node.accountBalance", TRUE)
          /\ pc' = "algo_craft"
          /\ UNCHANGED result
       \/ /\ Asked("node.accountBalance", FALSE)
          /\ Throw(FailedToGetFrom("NodeException"))
    /\ UNCHANGED <<inputs, addrLocals, suggested_params, taLocals, users, txLocals, i,
                   posted, nonWalletVars>>

\* craftPaymentTx(fromAddress, toAddress, amount, await getSuggestedParams()),
\* outside both try blocks; lease and note are not passed on
AlgoCraft ==
    /\ pc = "algo_craft"
    /\ \/ /\ suggested_params' = getSuggestedParams
          /\ unSignedTxs' = <<craftPaymentTx(fromAddress, req.to, req.amount,
                                             suggested_params')>>
          /\ log' = log \o <<"node.params", "craft">>
          /\ pc' = "algo_sign"
          /\ UNCHANGED result
       \/ /\ Throw("NodeException")
          /\ Asked("node.params", FALSE)
          /\ UNCHANGED <<suggested_params, unSignedTxs>>
    /\ UNCHANGED <<inputs, addrLocals, taLocals, users, unSignedGroupedTxns, signedTxs,
                   encodedTransactions, i, posted, nonWalletVars>>

\* second try block: signTxAsManager / signTxAsUser
AlgoSign ==
    /\ pc = "algo_sign"
    /\ log' = Append(log, "vault.sign")
    /\ \/ /\ signedTxs' = <<IF signsAsManager THEN signTxAsManager(unSignedTxs[1])
                                         ELSE signTxAsUser(req.userId, unSignedTxs[1])>>
          /\ pc' = "algo_submit"
          /\ UNCHANGED result
       \/ /\ (\E failure \in VaultFailures : Throw(FailedToSign(VaultThrown(failure))))
          /\ UNCHANGED signedTxs
    /\ UNCHANGED <<inputs, addrLocals, suggested_params, taLocals, users, unSignedTxs,
                   unSignedGroupedTxns, encodedTransactions, i, posted, nonWalletVars>>

\* second try block: submitTransaction, whose errors the same catch wraps
AlgoSubmit ==
    /\ pc = "algo_submit"
    /\ \E outcome \in SubmitOutcomes, accepted \in BOOLEAN :
          Submitted(outcome, accepted,
                    IF outcome = "returned txid" THEN "returned"
                    ELSE FailedToSign(Surface(outcome)))
    /\ UNCHANGED <<inputs, addrLocals, suggested_params, taLocals, users, txLocals, i,
                   nonWalletVars>>

TransferAlgoNext == AlgoFromKey \/ AlgoFromBalance \/ AlgoCraft \/ AlgoSign \/ AlgoSubmit

ClawbackInit ==
    /\ op = "clawbackAsset"
    /\ pc = "claw_userKey"
    /\ req \in [userId: Users, to: {NoAddress}, assetId: AssetIds, amount: Amounts,
                lease: Leases, note: Notes, transactions: {<<>>}]
    /\ ledger \in PlainLedgers
    /\ LocalsInit

\* a key lookup at position here: on to next, or the custody failure
KeyLookup(here, next, name, path) ==
    /\ pc = here
    /\ log' = Append(log, "vault.getKey")
    /\ \/ /\ VaultKey(path, name) \in VaultKeys
          /\ pc' = next
          /\ UNCHANGED result
       \/ (\E failure \in VaultFailures : Throw(VaultThrown(failure)))

ClawUserKey ==
    /\ KeyLookup("claw_userKey", "claw_userBalance", req.userId, UsersPath)
    /\ userPublicAddress' = IF pc' = "done" THEN userPublicAddress
                            ELSE encodeAddress(getKey(req.userId, UsersPath))
    /\ UNCHANGED <<inputs, managerPublicAddress, suggested_params, taLocals, users,
                   txLocals, i, posted, nonWalletVars>>

ClawUserBalance ==
    /\ pc = "claw_userBalance"
    /\ \/ /\ Asked("node.accountBalance", TRUE)
          /\ pc' = "claw_managerKey"
          /\ UNCHANGED result
       \/ /\ Asked("node.accountBalance", FALSE)
          /\ Throw("NodeException")
    /\ UNCHANGED <<inputs, addrLocals, suggested_params, taLocals, users, txLocals, i,
                   posted, nonWalletVars>>

ClawManagerKey ==
    /\ KeyLookup("claw_managerKey", "claw_craft", ManagerKey, ManagersPath)
    /\ managerPublicAddress' = IF pc' = "done" THEN managerPublicAddress
                               ELSE encodeAddress(getKey(ManagerKey, ManagersPath))
    /\ UNCHANGED <<inputs, userPublicAddress, suggested_params, taLocals, users,
                   txLocals, i, posted, nonWalletVars>>

\* a clawback whose sender and asset sender are exchanged
craftAssetClawbackTxExchanged(clawbackAddress, from, to, asset_id, amount, lease, note, sp) ==
    encodeTransaction([Txn("axfer", from, to, amount, asset_id, sp.minFee,
                           sp.lastRound, note, parseLease(lease))
                       EXCEPT !.asnd = decodeAddress(clawbackAddress)])

\* ChainService.craftAssetClawbackTx: the clawback address sends, the asset
\* leaves the account `from`
craftAssetClawbackTx(clawbackAddress, from, to, asset_id, amount, lease, note, sp) ==
    encodeTransaction([Txn("axfer", clawbackAddress, to,
                           IF amount # 0 THEN amount ELSE 0,
                           asset_id, sp.minFee, sp.lastRound,
                           IF note # "" THEN note ELSE "",
                           IF lease # "" THEN parseLease(lease) ELSE NoLease)
                       EXCEPT !.asnd = decodeAddress(from)])

\* getSuggestedParams, then craftAssetClawbackTx with the lease and the note
ClawCraft ==
    /\ pc = "claw_craft"
    /\ \/ /\ suggested_params' = getSuggestedParams
          /\ \/ /\ unSignedTxs' = <<craftAssetClawbackTx(managerPublicAddress,
                                        userPublicAddress, managerPublicAddress,
                                        req.assetId, req.amount, req.lease, req.note,
                                        suggested_params')>>
                /\ log' = log \o <<"node.params", "craft">>
                /\ pc' = "claw_sign"
                /\ UNCHANGED result
             \/ /\ addLeaseMayThrow(req.lease)
                /\ log' = Append(log, "node.params")
                /\ Throw("Invalid lease format")
                /\ UNCHANGED unSignedTxs
       \/ /\ Throw("NodeException")
          /\ Asked("node.params", FALSE)
          /\ UNCHANGED <<suggested_params, unSignedTxs>>
    /\ UNCHANGED <<inputs, addrLocals, taLocals, users, unSignedGroupedTxns, signedTxs,
                   encodedTransactions, i, posted, nonWalletVars>>

\* signTxAsManager(tx) of a single transaction
ManagerSigns(here, next) ==
    /\ pc = here
    /\ log' = Append(log, "vault.sign")
    /\ \/ /\ signedTxs' = <<signTxAsManager(unSignedTxs[1])>>
          /\ pc' = next
          /\ UNCHANGED result
       \/ /\ (\E failure \in VaultFailures : Throw(VaultThrown(failure)))
          /\ UNCHANGED signedTxs
    /\ UNCHANGED <<inputs, addrLocals, suggested_params, taLocals, users, unSignedTxs,
                   unSignedGroupedTxns, encodedTransactions, i, posted, nonWalletVars>>

ClawSign == ManagerSigns("claw_sign", "claw_submit")

ClawSubmit == SubmitSigned("claw_submit")

ClawbackNext ==
    \/ ClawUserKey \/ ClawUserBalance \/ ClawManagerKey \/ ClawCraft \/ ClawSign
    \/ ClawSubmit

CreateAssetInit ==
    /\ op = "createAsset"
    /\ pc = "create_managerKey"
    /\ req = [userId |-> "", to |-> NoAddress, assetId |-> 0, amount |-> 0, lease |-> "",
              note |-> "", transactions |-> <<>>]
    /\ ledger \in PlainLedgers
    /\ LocalsInit

CreateManagerKey ==
    /\ KeyLookup("create_managerKey", "create_craft", ManagerKey, ManagersPath)
    /\ managerPublicAddress' = IF pc' = "done" THEN managerPublicAddress
                               ELSE encodeAddress(getKey(ManagerKey, ManagersPath))
    /\ UNCHANGED <<inputs, userPublicAddress, suggested_params, taLocals, users,
                   txLocals, i, posted, nonWalletVars>>

\* craftAssetCreateTx(managerPublicAddress, options): no parameters are passed,
\* the crafter fetches them
CreateCraft ==
    /\ pc = "create_craft"
    /\ \/ /\ unSignedTxs' = <<craftAssetCreateTx(managerPublicAddress, getSuggestedParams)>>
          /\ log' = log \o <<"node.params", "craft">>
          /\ pc' = "create_sign"
          /\ UNCHANGED result
       \/ /\ Throw("NodeException")
          /\ Asked("node.params", FALSE)
          /\ UNCHANGED unSignedTxs
    /\ UNCHANGED <<inputs, addrLocals, suggested_params, taLocals, users,
                   unSignedGroupedTxns, signedTxs, encodedTransactions, i, posted,
                   nonWalletVars>>

CreateSign == ManagerSigns("create_sign", "create_submit")

CreateSubmit == SubmitSigned("create_submit")

CreateAssetNext == CreateManagerKey \/ CreateCraft \/ CreateSign \/ CreateSubmit


(***************************************************************************)
(* ChainService.setGroupID on its own: group ids of a list, of the same    *)
(* list again and of a rearrangement of it                                 *)
(***************************************************************************)
\* longest list handed to setGroupID
MaxPlan == 3

\* ungrouped transactions as the crafter makes them
PlanParams == [minFee |-> 1000, lastRound |-> 1]
PlanPool ==
    LET manager == AddressOf(VaultKey(ManagersPath, ManagerKey))
        alice == AddressOf(VaultKey(UsersPath, "alice"))
    IN  {craftPaymentTx(manager, alice, 10, PlanParams),
         craftAssetTransferTx(alice, alice, 5, 0, "", "", PlanParams),
         craftAssetTransferTx(manager, alice, 5, 10, "", "", PlanParams)}

\* the rearrangements of the positions 1..n
Orders(n) == {f \in [1..n -> 1..n] : \A a, b \in 1..n : f[a] = f[b] => a = b}

Rearranged(list, f) == [k \in 1..Len(list) |-> list[f[k]]]

\* decodedTx.grp taken out again
ClearGroup(list) ==
    [k \in 1..Len(list) |->
        encodeTransaction([decodeTransaction(list[k]) EXCEPT !.grp = NoGroup])]

PlanInit ==
    /\ gpc = "group"
    /\ txns \in UNION {[1..n -> PlanPool] : n \in 1..MaxPlan}
    /\ order \in Orders(Len(txns))
    /\ grouped = <<>>
    /\ regrouped = <<>>
    /\ reordered = <<>>

GroupList ==
    /\ gpc = "group"
    /\ grouped' = setGroupID(txns)
    /\ gpc' = "regroup"
    /\ UNCHANGED <<txns, order, regrouped, reordered, nonPlanVars>>

GroupListAgain ==
    /\ gpc = "regroup"
    /\ regrouped' = setGroupID(ClearGroup(grouped))
    /\ gpc' = "reorder"
    /\ UNCHANGED <<txns, order, grouped, reordered, nonPlanVars>>

GroupRearranged ==
    /\ gpc = "reorder"
    /\ reordered' = setGroupID(Rearranged(txns, order))
    /\ gpc' = "done"
    /\ UNCHANGED <<txns, order, grouped, regrouped, nonPlanVars>>

PlanNext == GroupList \/ GroupListAgain \/ GroupRearranged

\* setGroupID is not running while another component is examined
PlanIdle ==
    /\ gpc = "done"
    /\ txns = <<>>
    /\ order = <<>>
    /\ grouped = <<>>
    /\ regrouped = <<>>
    /\ reordered = <<>>

(***************************************************************************)
(* Concurrent calls of transferAsset for one receiver. Each call owns its  *)
(* locals; the calls meet only at the ledger, which judges a group as a    *)
(* whole. Of a call the steps that read or write the receiver's account    *)
(* are kept: getAccountAsset, getAccountDetail and submitTransaction.      *)
(***************************************************************************)
\* number of calls in flight
MaxCalls == 2

Callers == 1..MaxCalls

\* the receiver's account: without a holding of the asset (an account that
\* was never funded reports amount 0), or with one
Accounts ==
    [amount: Balances, minBalance: {100000}, holding: {FALSE}]
    \cup [amount: {201000, 300000}, minBalance: {200000}, holding: {TRUE}]

NoCall == [pc |-> "asset", willOptInTx |-> FALSE, userOwnedExtraAlgo |-> 0,
           userExtraAlgoNeed |-> 0, willPaymentTx |-> FALSE, bundle |-> <<>>,
           seen |-> 0, seenDetail |-> 0, result |-> "running"]

RaceInit ==
    /\ chain \in Accounts
    /\ transfers = [p \in Callers |-> NoCall]
    /\ applied = <<>>

\* the ledger: one member of a group applied to the receiver's account
ApplyMember(acct, m) ==
    CASE m.kind = "funding" -> [acct EXCEPT !.amount = @ + m.amount]
      [] m.kind = "opt-in" ->
            [acct EXCEPT !.amount = @ - m.fee,
                         !.holding = TRUE,
                         !.minBalance = IF acct.holding THEN @ ELSE @ + OptInMinBalance]
      [] OTHER -> acct

\* the ledger: whether the member is valid on the account it meets, leaving after
MemberValid(acct, m, after) ==
    /\ after.amount >= after.minBalance
    /\ m.kind = "primary" => acct.holding

\* the ledger: a group is judged member by member and taken whole or not at all
RECURSIVE Evaluate(_, _)
Evaluate(acct, bundle) ==
    IF bundle = <<>> THEN [ok |-> TRUE, acct |-> acct]
    ELSE LET after == ApplyMember(acct, Head(bundle))
         IN  IF MemberValid(acct, Head(bundle), after)
             THEN Evaluate(after, Tail(bundle))
             ELSE [ok |-> FALSE, acct |-> acct]

\* the members of the bundle a call builds, in the order they are pushed
RaceBundle(payment, paymentAmount, optIn, fee) ==
    (IF payment THEN <<[kind |-> "funding", amount |-> paymentAmount, fee |-> fee]>> ELSE <<>>)
    \o (IF optIn THEN <<[kind |-> "opt-in", amount |-> 0, fee |-> fee]>> ELSE <<>>)
    \o <<[kind |-> "primary", amount |-> 0, fee |-> fee]>>

Confirmed(history) == SelectSeq(history, LAMBDA b : b.ok)

\* getAccountAsset and the need computed from it
RaceAccountAsset(p) ==
    /\ transfers[p].pc = "asset"
    /\ LET optIn == WillOptIn(getAccountAsset(chain.holding))
       IN  transfers' = [transfers EXCEPT ![p].pc = "detail",
                                  ![p].willOptInTx = optIn,
                                  ![p].userExtraAlgoNeed = ExtraAlgoNeed(optIn, PlanParams.minFee),
                                  ![p].seen = Len(Confirmed(applied))]
    /\ UNCHANGED <<chain, applied, nonRaceVars>>

\* getAccountDetail, the funding decision and the bundle
RaceAccountDetail(p) ==
    /\ transfers[p].pc = "detail"
    /\ LET owned == OwnedExtraAlgo(chain.amount, chain.minBalance)
           payment == NeedsPayment(owned, transfers[p].userExtraAlgoNeed)
           need == IF payment THEN transfers[p].userExtraAlgoNeed - owned
                              ELSE transfers[p].userExtraAlgoNeed
       IN  transfers' = [transfers EXCEPT ![p].pc = "submit",
                                  ![p].userOwnedExtraAlgo = owned,
                                  ![p].willPaymentTx = payment,
                                  ![p].userExtraAlgoNeed = need,
                                  ![p].seenDetail = Len(Confirmed(applied)),
                                  ![p].bundle = RaceBundle(payment, need, transfers[p].willOptInTx,
                                                           PlanParams.minFee)]
    /\ UNCHANGED <<chain, applied, nonRaceVars>>

\* submitTransaction: the ledger takes the bundle whole or rejects it whole
RaceSubmit(p) ==
    /\ transfers[p].pc = "submit"
    /\ LET verdict == Evaluate(chain, transfers[p].bundle)
       IN  /\ chain' = verdict.acct
           /\ applied' = Append(applied, [call |-> p, ok |-> verdict.ok, before |-> chain,
                                          after |-> verdict.acct,
                                          bundle |-> transfers[p].bundle])
           /\ transfers' = [transfers EXCEPT ![p].pc = "done",
                                     ![p].result = IF verdict.ok THEN "returned"
                                                   ELSE "Transaction Rejected"]
    /\ UNCHANGED nonRaceVars

RaceNext ==
    \E p \in Callers : RaceAccountAsset(p) \/ RaceAccountDetail(p) \/ RaceSubmit(p)

\* no concurrent calls while another component is examined
RaceIdle ==
    /\ chain = [amount |-> 0, minBalance |-> 0, holding |-> FALSE]
    /\ transfers = <<>>
    /\ applied = <<>>

(***************************************************************************)
(* The crafters of ChainService called on their own: craftPaymentTx,       *)
(* craftAssetTransferTx and craftAssetClawbackTx with arguments of every   *)
(* kind, and AlgorandEncoder.decodeTransaction of what they return         *)
(***************************************************************************)
CraftAddresses == {AddressOf(VaultKey(ManagersPath, ManagerKey)),
                   AddressOf(VaultKey(UsersPath, "alice"))}
CraftReceivers == {AddressOf(VaultKey(UsersPath, "alice")), ExternalAddress}
\* class-validator asks of an amount only that it is a number
CraftAmounts == {-1, 0, 10}
CraftParams == [minFee: MinFees, lastRound: {1, 2}]

NoEncoding == [tag |-> "none"]
NoTransaction == [type |-> "none"]

CraftCalls ==
    [crafter: {"craftPaymentTx"}, clawbackAddress: {NoAddress}, from: CraftAddresses,
     to: CraftReceivers, asset_id: {0}, amount: CraftAmounts, lease: {""}, note: {""},
     sp: CraftParams]
    \cup [crafter: {"craftAssetTransferTx"}, clawbackAddress: {NoAddress},
          from: CraftAddresses, to: CraftReceivers, asset_id: AssetIds,
          amount: CraftAmounts, lease: Leases, note: Notes, sp: CraftParams]
    \cup [crafter: {"craftAssetClawbackTx"},
          clawbackAddress: {AddressOf(VaultKey(ManagersPath, ManagerKey))},
          from: {AddressOf(VaultKey(UsersPath, "alice"))}, to: CraftAddresses,
          asset_id: AssetIds, amount: CraftAmounts, lease: Leases, note: Notes,
          sp: CraftParams]

CraftInit ==
    /\ craftPc = "call"
    /\ craftCall \in CraftCalls
    /\ craftOut = NoEncoding
    /\ craftError = ""
    /\ craftDecoded = NoTransaction

Crafted(encoding) ==
    /\ craftOut' = encoding
    /\ craftPc' = "crafted"
    /\ UNCHANGED craftError

CraftThrew(error) ==
    /\ craftError' = error
    /\ craftPc' = "threw"
    /\ UNCHANGED craftOut

CraftPayment ==
    /\ craftPc = "call"
    /\ craftCall.crafter = "craftPaymentTx"
    /\ \/ Crafted(craftPaymentTx(craftCall.from, craftCall.to, craftCall.amount, craftCall.sp))
       \/ /\ encodeMayThrow(craftCall.amount)
          /\ CraftThrew("encoder error")
    /\ UNCHANGED <<craftCall, craftDecoded, nonCraftVars>>

CraftAssetTransfer ==
    /\ craftPc = "call"
    /\ craftCall.crafter = "craftAssetTransferTx"
    /\ \/ Crafted(craftAssetTransferTx(craftCall.from, craftCall.to, craftCall.asset_id,
                                       craftCall.amount, craftCall.lease, craftCall.note,
                                       craftCall.sp))
       \/ /\ encodeMayThrow(craftCall.amount)
          /\ CraftThrew("encoder error")
       \/ /\ addLeaseMayThrow(craftCall.lease)
          /\ CraftThrew("Invalid lease format")
    /\ UNCHANGED <<craftCall, craftDecoded, nonCraftVars>>

CraftClawback ==
    /\ craftPc = "call"
    /\ craftCall.crafter = "craftAssetClawbackTx"
    /\ \/ Crafted(craftAssetClawbackTx(craftCall.clawbackAddress, craftCall.from,
                                       craftCall.to, craftCall.asset_id, craftCall.amount,
                                       craftCall.lease, craftCall.note, craftCall.sp))
       \/ /\ encodeMayThrow(craftCall.amount)
          /\ CraftThrew("encoder error")
       \/ /\ addLeaseMayThrow(craftCall.lease)
          /\ CraftThrew("Invalid lease format")
    /\ UNCHANGED <<craftCall, craftDecoded, nonCraftVars>>

\* new AlgorandEncoder().decodeTransaction(encoding)
DecodeCrafted ==
    /\ craftPc = "crafted"
    /\ craftDecoded' = decodeTransaction(craftOut)
    /\ craftPc' = "decoded"
    /\ UNCHANGED <<craftCall, craftOut, craftError, nonCraftVars>>

CraftNext == CraftPayment \/ CraftAssetTransfer \/ CraftClawback \/ DecodeCrafted

\* no crafter is called on its own while another component is examined
CraftIdle ==
    /\ craftPc = "idle"
    /\ craftCall = <<>>
    /\ craftOut = NoEncoding
    /\ craftError = ""
    /\ craftDecoded = NoTransaction

(***************************************************************************)
(* The development initialisation of Vault: main and the functions it      *)
(* calls, run after run against one Vault server and one working directory *)
(***************************************************************************)
\* how often the command is run
MaxRuns == 2

\* USERS_POLICY_NAME, MANAGERS_POLICY_NAME
PolicyNames == <<"pawn_users_policy", "pawn_managers_policy">>
\* USERS_APP_ROLE_NAME, MANAGERS_APP_ROLE_NAME
AppRoleNames == <<"pawn_users_approle", "pawn_managers_approle">>
\* VAULT_MANAGER_KEY and the named managers of main, in the order of main
ManagerKeys == <<"manager", "admin", "operational", "onboarding">>
\* VAULT_TRANSIT_USERS_PATH, VAULT_TRANSIT_MANAGERS_PATH
TransitMounts == {"pawn/users", "pawn/managers"}

\* a Vault server that was never initialised
FreshServer ==
    [initialised |-> FALSE, sealed |-> TRUE, mounts |-> {}, approle |-> FALSE,
     policies |-> {}, roles |-> {}, keys |-> {}]

\* the server answers requests that need a token only when it is unsealed
Serving(s) == s.initialised /\ ~s.sealed

\* the status of GET sys/policies/acl/{name} and GET auth/approle/role/{name}:
\* 200 or 404 from a serving server, 503 from a sealed one, 0 for no response
ExistsStatuses(s, present) ==
    IF Serving(s) THEN {IF present THEN 200 ELSE 404, 0} ELSE {503, 0}

\* checkACLPoliciesExists / checkAppRoleExists: true on success, false on 404
\* and false on every other error
checkExists(status) == status = 200

\* the loop of createACLPolicies / getOrCreateAppRoles over the names from
\* index k on: the check, and the creating request when the check said no;
\* a creating request that fails throws out of the loop.  checks and answered
\* give the status of each check and whether each creating request is served;
\* the result is what is present afterwards and the names that were written.
RECURSIVE getOrCreate(_, _, _, _, _, _)
getOrCreate(names, k, present, written, checks, answered) ==
    IF k > Len(names) THEN [present |-> present, written |-> written]
    ELSE IF checkExists(checks[k])
         THEN getOrCreate(names, k + 1, present, written, checks, answered)
    ELSE IF answered[k]
         THEN getOrCreate(names, k + 1, present \cup {names[k]},
                          Append(written, names[k]), checks, answered)
    ELSE [present |-> present, written |-> written]

\* what the journal keeps of an accepted creating request
Made(call, names, before) ==
    [k \in 1..Len(names) |->
        [run |-> runs, call |-> call, name |-> names[k], existed |-> names[k] \in before]]

SetupInit ==
    /\ sealKeysFile = FALSE
    /\ server = FreshServer
    /\ mainPc = "exited"
    /\ runs = 0
    /\ journal = <<>>

\* the Vault container is restarted between two runs: it comes back sealed
RestartContainer ==
    /\ mainPc \in {"exited", "crashed"}
    /\ Serving(server)
    /\ server' = [server EXCEPT !.sealed = TRUE]
    /\ UNCHANGED <<sealKeysFile, mainPc, runs, journal, nonSetupVars>>

\* POST sys/unseal inside unsealVault, whose catch swallows every failure
Unsealed(s, answered) == IF answered /\ s.initialised THEN [s EXCEPT !.sealed = FALSE] ELSE s

\* initUsersTransitEngine and initManagersTransitEngine: each mount request
\* of mounted is served; the catch of each swallows a failure
Mounted(s, mounted) == IF Serving(s) THEN [s EXCEPT !.mounts = @ \cup mounted] ELSE s

\* main up to the logging of the root token: initVault when the seal-keys
\* file is missing, else the file is read and the vault unsealed
MainStart ==
    /\ mainPc \in {"exited", "crashed"}
    /\ runs < MaxRuns
    /\ runs' = runs + 1
    /\ IF ~sealKeysFile
       THEN \E answered \in BOOLEAN :
               IF answered /\ ~server.initialised
               THEN \E unsealed \in BOOLEAN, mounted \in SUBSET TransitMounts :
                       /\ sealKeysFile' = TRUE
                       /\ server' = Mounted(Unsealed([server EXCEPT !.initialised = TRUE],
                                                     unsealed), mounted)
                       /\ journal' = Append(journal,
                                            [run |-> runs', call |-> "init", name |-> "vault",
                                             existed |-> server.initialised])
                       /\ mainPc' = "policies"
               ELSE \* initVault returns undefined: sealKeys.root_token throws
                    /\ mainPc' = "crashed"
                    /\ UNCHANGED <<sealKeysFile, server, journal>>
       ELSE \E unsealed \in BOOLEAN :
               /\ server' = Unsealed(server, unsealed)
               /\ mainPc' = "policies"
               /\ UNCHANGED <<sealKeysFile, journal>>
    /\ UNCHANGED nonSetupVars

\* createACLPolicies
CreateACLPolicies ==
    /\ mainPc = "policies"
    /\ \E checks \in [1..Len(PolicyNames) -> {200, 404, 503, 0}],
          answered \in [1..Len(PolicyNames) -> BOOLEAN] :
          /\ \A k \in 1..Len(PolicyNames) :
                /\ checks[k] \in ExistsStatuses(server, PolicyNames[k] \in server.policies)
                /\ answered[k] => Serving(server)
          /\ LET done == getOrCreate(PolicyNames, 1, server.policies, <<>>, checks, answered)
             IN  /\ server' = [server EXCEPT !.policies = done.present]
                 /\ journal' = journal \o Made("policy", done.written, server.policies)
    /\ mainPc' = "approle"
    /\ UNCHANGED <<sealKeysFile, runs, nonSetupVars>>

\* enableAppRoleIfNotEnabledAuth: 'path is already in use' and every other
\* failure are logged and swallowed
EnableAppRole ==
    /\ mainPc = "approle"
    /\ \E answered \in BOOLEAN :
          server' = IF answered /\ Serving(server) THEN [server EXCEPT !.approle = TRUE]
                                                   ELSE server
    /\ mainPc' = "roles"
    /\ UNCHANGED <<sealKeysFile, runs, journal, nonSetupVars>>

\* getOrCreateAppRoles; a role can be written once the approle method is on
GetOrCreateAppRoles ==
    /\ mainPc = "roles"
    /\ \E checks \in [1..Len(AppRoleNames) -> {200, 404, 503, 0}],
          answered \in [1..Len(AppRoleNames) -> BOOLEAN] :
          /\ \A k \in 1..Len(AppRoleNames) :
                /\ checks[k] \in ExistsStatuses(server, AppRoleNames[k] \in server.roles)
                /\ answered[k] => Serving(server) /\ server.approle
          /\ LET done == getOrCreate(AppRoleNames, 1, server.roles, <<>>, checks, answered)
             IN  /\ server' = [server EXCEPT !.roles = done.present]
                 /\ journal' = journal \o Made("role", done.written, server.roles)
    /\ mainPc' = "secrets"
    /\ UNCHANGED <<sealKeysFile, runs, nonSetupVars>>

\* logRoleIdAndSecretId for both roles: reads and files only, failures swallowed
LogRoleIdAndSecretId ==
    /\ mainPc = "secrets"
    /\ mainPc' = "managers"
    /\ UNCHANGED <<sealKeysFile, server, runs, journal, nonSetupVars>>

\* getOrCreateManager and the three getOrCreateNamedManager calls of main:
\* the first made requests are served; a request that fails throws out of
\* main, nothing catches it
GetOrCreateManagers ==
    /\ mainPc = "managers"
    /\ \E made \in 0..Len(ManagerKeys) :
          /\ made > 0 => Serving(server) /\ "pawn/managers" \in server.mounts
          /\ server' = [server EXCEPT !.keys = @ \cup {ManagerKeys[k] : k \in 1..made}]
          /\ mainPc' = IF made = Len(ManagerKeys) THEN "exited" ELSE "crashed"
    /\ UNCHANGED <<sealKeysFile, runs, journal, nonSetupVars>>

SetupNext ==
    \/ RestartContainer \/ MainStart \/ CreateACLPolicies \/ EnableAppRole
    \/ GetOrCreateAppRoles \/ LogRoleIdAndSecretId \/ GetOrCreateManagers

\* the initialisation is not run while another component is examined
SetupIdle ==
    /\ sealKeysFile = FALSE
    /\ server = FreshServer
    /\ mainPc = "idle"
    /\ runs = 0
    /\ journal = <<>>

PollNext == Post \/ FetchStartRound \/ Poll \/ WaitForBlock

\* the wallet is not running while a lone submission is examined
WalletIdle ==
    /\ op = "none"
    /\ pc = "done"
    /\ req = [userId |-> "", to |-> NoAddress, assetId |-> 0, amount |-> 0, lease |-> "",
              note |-> "", transactions |-> <<>>]
    /\ ledger = [holding |-> FALSE, amount |-> 0, minBalance |-> 0, minFee |-> 0, lastRound |-> 0]
    /\ LocalsInit

\* no lone submission runs while a wallet operation is examined
PollIdle ==
    /\ entry = "none"
    /\ ppc = "done"
    /\ waitRounds = 0
    /\ startRound = -1
    /\ currentRound = -1
    /\ nQueries = 0
    /\ nFailed = 0
    /\ lastResp = NoResp
    /\ uncaught = ""
    /\ waits = <<>>
    /\ wc = "not called"
    /\ submitResult = "not called"

SubmissionInit == PollInit /\ WalletIdle /\ PlanIdle /\ RaceIdle /\ CraftIdle /\ SetupIdle

SpecPoll == SubmissionInit /\ [][PollNext]_vars

\* every call returns (with an answer or an error), so a pending step is taken
SpecPollFair == SpecPoll /\ WF_vars(PollNext)

WalletInit ==
    /\ PollIdle
    /\ PlanIdle
    /\ RaceIdle
    /\ CraftIdle
    /\ SetupIdle
    /\ \/ TransferAssetInit \/ SendGroupInit
       \/ TransferAlgoInit \/ ClawbackInit \/ CreateAssetInit

WalletNext ==
    \/ TransferAssetNext \/ SendGroupNext
    \/ TransferAlgoNext \/ ClawbackNext \/ CreateAssetNext

SpecWallet == WalletInit /\ [][WalletNext]_vars

GroupingInit == PlanInit /\ PollIdle /\ WalletIdle /\ RaceIdle /\ CraftIdle /\ SetupIdle

SpecGroup == GroupingInit /\ [][PlanNext]_vars

ConcurrentInit == RaceInit /\ PollIdle /\ WalletIdle /\ PlanIdle /\ CraftIdle /\ SetupIdle

SpecConcurrent == ConcurrentInit /\ [][RaceNext]_vars

CraftingInit == CraftInit /\ PollIdle /\ WalletIdle /\ PlanIdle /\ RaceIdle /\ SetupIdle

SpecCraft == CraftingInit /\ [][CraftNext]_vars

VaultSetupInit == SetupInit /\ PollIdle /\ WalletIdle /\ PlanIdle /\ RaceIdle /\ CraftIdle

SpecSetup == VaultSetupInit /\ [][SetupNext]_vars

(***************************************************************************)
(* Confirmation polling: claims C1 - C5                                    *)
(***************************************************************************)
PoolErrorSeen == lastResp.status = "ok" /\ TruthyStr(lastResp.poolError)
ConfirmedSeen == lastResp.status = "ok" /\ TruthyNum(lastResp.confirmedRound)
TimedOut == ppc = "done" /\ wc = "returned undefined"

\* what submitTransaction can give its caller
SubmitOutcomesCover ==
    (entry = "submitTransaction" /\ ppc = "done") => submitResult \in SubmitOutcomes

\* C1: when the round budget is exhausted with no confirmed round and no
\* pool-error seen, the caller of submitTransaction is told so: the call does
\* not end as the plain success (the transaction id) a confirmed run gives.
C1_TimedOutSurfaced ==
    (entry = "submitTransaction" /\ TimedOut) => submitResult # "returned txid"

\* C2: a poll that shows a pool-error and no confirmed round ends the run as
\* rejected at that poll: the rejection reaches the caller, and no wait and no
\* query follows it (on the first poll: one query, no wait).
C2_PoolErrorTerminal ==
    (PoolErrorSeen /\ ~ConfirmedSeen) =>
        /\ ppc = "done"
        /\ ~ENABLED PollNext
        /\ wc = "threw Transaction Rejected"
        /\ entry = "submitTransaction" => submitResult = "threw Transaction Rejected"
        /\ Len(waits) = nQueries - 1

C2_RejectedOnFirstPoll ==
    /\ PoolErrorSeen
    /\ nQueries = 1
    /\ waits = <<>>
    /\ submitResult = "threw Transaction Rejected"

\* C3: a poll that shows a confirmed round ends the run as confirmed with no
\* further query or wait, whatever lookups failed before it.
C3_ConfirmedWins ==
    ConfirmedSeen =>
        /\ ppc = "done"
        /\ ~ENABLED PollNext
        /\ wc = "returned pendingInfo"
        /\ entry = "submitTransaction" => submitResult = "returned txid"
        /\ Len(waits) = nQueries - 1

C3_ConfirmedAfterFailures ==
    /\ ConfirmedSeen
    /\ nFailed >= 2
    /\ submitResult = "returned txid"

\* C4: a lookup that throws is absorbed: the run goes on to wait for the next
\* round and, while the budget lasts, queries again; it ends only by the
\* budget running out or by the wait itself failing, never by that lookup.
C4_LookupFailureAbsorbed ==
    lastResp.status = "fail" =>
        \/ ppc = "wait" /\ wc = "running" /\ Len(waits) = nQueries - 1
        \/ /\ ppc = "poll" /\ wc = "running" /\ Len(waits) = nQueries
           /\ nQueries < waitRounds
        \/ /\ ppc = "done" /\ wc = "returned undefined" /\ Len(waits) = nQueries
           /\ nQueries = waitRounds
        \/ ppc = "done" /\ wc = "threw NodeException" /\ Len(waits) = nQueries

C4_RetriedAfterFailure ==
    /\ lastResp.status = "fail"
    /\ nFailed >= 2
    /\ ppc = "poll"

\* the counters of the polling loop: queries and waits against the budget
C5_Bounded ==
    /\ nQueries <= waitRounds
    /\ Len(waits) <= waitRounds
    /\ waits = [k \in 1..Len(waits) |-> startRound + k - 1]
    /\ ppc = "poll" => Len(waits) = nQueries
    /\ ppc = "wait" => Len(waits) = nQueries - 1
    /\ ppc = "done" => Len(waits) \in {nQueries - 1, nQueries}

\* C5: at most waitRounds queries; the waits are for the consecutive rounds
\* startRound, startRound + 1, ..., one between two consecutive queries; and
\* the run ends when every call returns.
C5_BoundedPolling == []C5_Bounded /\ <>(ppc = "done")

C5_BudgetUsedUp ==
    /\ TimedOut
    /\ waitRounds = DefaultWaitRounds
    /\ nQueries = DefaultWaitRounds
    /\ Len(waits) = DefaultWaitRounds

(***************************************************************************)
(* Bundles of transferAsset and sendGroup: claims C6 - C10                 *)
(***************************************************************************)
Range(seq) == {seq[k] : k \in 1..Len(seq)}
Count(seq, x) == Cardinality({k \in 1..Len(seq) : seq[k] = x})

\* the address custody derives for a declared identity
CustodyAddress(user) == encodeAddress(getKey(user.id, PathOf(user)))

\* a member of the request whose sender claims an address that is not its own
SenderMismatch ==
    /\ op = "sendGroup"
    /\ \E k \in 1..Len(req.transactions) :
          req.transactions[k].sender.public_address # CustodyAddress(req.transactions[k].sender)

\* every custody lookup of the validation loop has returned a key
AllResolved ==
    Len(users)
        = Len(req.transactions)
          + Cardinality({k \in 1..Len(req.transactions) : req.transactions[k].receiver # NoUser})

\* C6: sendGroup with a sender whose claimed address differs from the address
\* custody derives fails before anything else happens: ledger parameters are
\* never fetched, nothing is crafted, grouped, signed or submitted, and once
\* the custody lookups have returned the operation has ended with the
\* address-mismatch error (a lookup that fails ends it with that failure).
C6_MismatchRejectedFirst ==
    SenderMismatch =>
        /\ Range(log) \subseteq {"vault.getKey"}
        /\ unSignedTxs = <<>> /\ signedTxs = <<>> /\ posted = <<>>
        /\ suggested_params = NoParams
        /\ pc \in {"sg_resolve", "done"}
        /\ pc = "done" => result \in {"Invalid users", "VaultException", "TypeError"}
        /\ AllResolved => pc = "done" /\ result = "Invalid users"

C6_SpoofedSenderRejected ==
    /\ SenderMismatch
    /\ Len(req.transactions) = 2
    /\ req.transactions[1].sender = Alice
    /\ req.transactions[2].sender = AliceSpoofing
    /\ AllResolved
    /\ result = "Invalid users"

\* the operations that build a bundle, and the final encodings of the
\* transactions of an operation (a single transaction is not grouped)
Bundled == op \in {"transferAsset", "sendGroup"}
FinalEncodings == IF Bundled THEN unSignedGroupedTxns ELSE unSignedTxs

\* C7: every signature of the bundle was made over the final, group-stamped
\* encoding of the transaction it is attached to; the bundle is grouped once,
\* after the last member is crafted and before the first signature is asked
\* for; and what is submitted is that signed bundle.
C7_SignedFinalEncoding ==
    /\ \A k \in 1..Len(signedTxs) :
          /\ signedTxs[k].sig.payload = FinalEncodings[k]
          /\ signedTxs[k].sig.payload = encodeTransaction(signedTxs[k].txn)
          /\ Bundled => signedTxs[k].txn.grp = computeGroupId(unSignedTxs)
          /\ [signedTxs[k].txn EXCEPT !.grp = NoGroup] = decodeTransaction(unSignedTxs[k])
    /\ Count(log, "group") <= 1
    /\ \A a, b \in 1..Len(log) :
          /\ (log[a] = "craft" /\ log[b] = "group") => a < b
          /\ (log[a] = "group" /\ log[b] = "vault.sign") => a < b
    /\ ("vault.sign" \in Range(log) /\ Bundled) => "group" \in Range(log)
    /\ "node.submit" \in Range(log) => posted = signedTxs /\ Len(posted) = Len(unSignedTxs)

C7_SignedBundleSubmitted ==
    /\ "node.submit" \in Range(log)
    /\ Len(posted) >= 2
    /\ \E k \in 1..Len(posted) : posted[k].sig.signer.path = UsersPath
    /\ \E k \in 1..Len(posted) : posted[k].sig.signer.path = ManagersPath

\* the opt-in of transferAsset: a zero-amount transfer of the asset from the
\* receiver to itself
IsOptIn(tx) ==
    /\ tx.type = "axfer"
    /\ tx.snd = decodeAddress(userPublicAddress)
    /\ tx.rcv = tx.snd
    /\ tx.amt = 0
    /\ tx.xaid = req.assetId

\* C8: in transferAsset every member is signed with the key of its own sender:
\* the funding payment and the primary transfer with the default manager key,
\* the opt-in with the key of the receiving user, and never with a key whose
\* public key is not the sender of the member.
C8_SignedByOwnSender ==
    op = "transferAsset" =>
        \A k \in 1..Len(signedTxs) :
            LET tx == signedTxs[k].txn
                signer == signedTxs[k].sig.signer
            IN  /\ getKey(signer.name, signer.path) = tx.snd
                /\ IsOptIn(tx) => signer = VaultKey(UsersPath, req.userId)
                /\ (tx.type = "pay" \/ k = Len(unSignedTxs)) =>
                       /\ signer = VaultKey(ManagersPath, ManagerKey)
                       /\ tx.snd = decodeAddress(managerPublicAddress)

C8_ThreeMembersSigned ==
    /\ op = "transferAsset"
    /\ Len(signedTxs) = 3
    /\ signedTxs[1].txn.type = "pay"
    /\ IsOptIn(signedTxs[2].txn)
    /\ posted = signedTxs

\* the specification a crafted member of sendGroup was built from: the k-th
\* one whose type is crafted
CraftedTypes == {"algo_transfer", "asset_transfer", "create_asset"}
CraftedFrom(k) ==
    LET idx == SelectSeq([j \in 1..Len(req.transactions) |-> j],
                         LAMBDA j : req.transactions[j].type \in CraftedTypes)
    IN  req.transactions[idx[k]]

\* a member of the built bundle whose declared sender is neither user nor manager
UnmappableMember ==
    /\ op = "sendGroup"
    /\ \E k \in 1..Len(unSignedGroupedTxns) : CraftedFrom(k).sender.type \notin {"user", "manager"}

\* C9: a bundle with a member whose sender maps to no signing path is never
\* submitted and the operation ends in an error; and whatever is submitted
\* carries one signature per grouped transaction.
C9_NoUnsignedSubmission ==
    /\ UnmappableMember =>
          /\ "node.submit" \notin Range(log)
          /\ pc = "done" => result # "returned"
    /\ "node.submit" \in Range(log) =>
          /\ Len(posted) = Len(FinalEncodings)
          /\ \A k \in 1..Len(posted) :
                posted[k].txn = decodeTransaction(FinalEncodings[k])

\* C10: the bundle of transferAsset holds an opt-in exactly when the receiver
\* has no holding of the asset on the ledger, and then exactly one.
OptIns(txs) == {k \in 1..Len(txs) : IsOptIn(decodeTransaction(txs[k]))}

C10_OptInIffNoHolding ==
    (op = "transferAsset" /\ "group" \in Range(log)) =>
        /\ Cardinality(OptIns(unSignedTxs)) = IF ledger.holding THEN 0 ELSE 1
        /\ OptIns(unSignedGroupedTxns) = OptIns(unSignedTxs)
        /\ willOptInTx = ~ledger.holding
        /\ "node.submit" \in Range(log) =>
              {k \in 1..Len(posted) : IsOptIn(posted[k].txn)} = OptIns(unSignedTxs)

C10_OptInSubmitted ==
    /\ op = "transferAsset"
    /\ ~ledger.holding
    /\ ledger.amount - ledger.minBalance >= OptInMinBalance + ledger.minFee
    /\ Len(posted) = 2
    /\ IsOptIn(posted[1].txn)

(***************************************************************************)
(* Funding and order of the bundle of transferAsset: claims C11, C12       *)
(***************************************************************************)
\* the funding payment of transferAsset: the manager pays the receiver
IsFunding(tx) ==
    /\ tx.type = "pay"
    /\ tx.snd = decodeAddress(managerPublicAddress)
    /\ tx.rcv = decodeAddress(userPublicAddress)

Fundings(txs) == {k \in 1..Len(txs) : IsFunding(decodeTransaction(txs[k]))}

\* what the ledger holds for the receiver, in the words of the claim
OwnedSlack == ledger.amount - ledger.minBalance
ExtraMinBalanceNeeded == IF ledger.holding THEN 0 ELSE 100000 + ledger.minFee

TABuilt == op = "transferAsset" /\ "group" \in Range(log)

\* C11: the bundle of transferAsset holds a funding payment from the manager
\* to the receiver exactly when ownedSlack < extraMinBalanceNeeded (none at
\* ownedSlack = extraMinBalanceNeeded), its amount is
\* extraMinBalanceNeeded - ownedSlack, and it is the only payment.
C11_FundingIffShortfall ==
    TABuilt =>
        /\ Cardinality(Fundings(unSignedTxs))
              = IF OwnedSlack < ExtraMinBalanceNeeded THEN 1 ELSE 0
        /\ \A k \in 1..Len(unSignedTxs) :
              decodeTransaction(unSignedTxs[k]).type = "pay" => k \in Fundings(unSignedTxs)
        /\ \A k \in Fundings(unSignedTxs) :
              /\ decodeTransaction(unSignedTxs[k]).amt = ExtraMinBalanceNeeded - OwnedSlack
              /\ decodeTransaction(unSignedGroupedTxns[k]).amt = ExtraMinBalanceNeeded - OwnedSlack
        /\ "node.submit" \in Range(log) =>
              {k \in 1..Len(posted) : IsFunding(posted[k].txn)} = Fundings(unSignedTxs)

C11_NoFundingAtBoundary ==
    /\ TABuilt
    /\ ~ledger.holding
    /\ OwnedSlack = ExtraMinBalanceNeeded
    /\ "node.submit" \in Range(log)
    /\ \A k \in 1..Len(posted) : posted[k].txn.type # "pay"

\* the primary transfer of transferAsset: the asset from the manager to the
\* receiver, for the requested amount
IsPrimary(tx) ==
    /\ tx.type = "axfer"
    /\ tx.snd = decodeAddress(managerPublicAddress)
    /\ tx.rcv = decodeAddress(userPublicAddress)
    /\ tx.amt = req.amount
    /\ tx.xaid = req.assetId

KindOf(tx) ==
    IF IsFunding(tx) THEN "funding"
    ELSE IF IsOptIn(tx) THEN "opt-in"
    ELSE IF IsPrimary(tx) THEN "primary"
    ELSE "other"

Kinds(txs) == [k \in 1..Len(txs) |-> KindOf(decodeTransaction(txs[k]))]

ExpectedKinds ==
    (IF OwnedSlack < ExtraMinBalanceNeeded THEN <<"funding">> ELSE <<>>)
    \o (IF ledger.holding THEN <<>> ELSE <<"opt-in">>)
    \o <<"primary">>

\* C12: the members of a bundle of transferAsset are, in this order, the
\* funding payment (if any), the opt-in (if any) and the primary transfer,
\* whichever of the two auxiliary members are present; the grouped and the
\* submitted bundle keep that order.
C12_FundingOptInPrimary ==
    TABuilt =>
        /\ Kinds(unSignedTxs) = ExpectedKinds
        /\ Kinds(unSignedGroupedTxns) = ExpectedKinds
        /\ KindOf(decodeTransaction(unSignedTxs[Len(unSignedTxs)])) = "primary"
        /\ "node.submit" \in Range(log) =>
              [k \in 1..Len(posted) |-> KindOf(posted[k].txn)] = ExpectedKinds

C12_FundingWithoutOptIn ==
    /\ TABuilt
    /\ ledger.holding
    /\ "node.submit" \in Range(log)
    /\ [k \in 1..Len(posted) |-> KindOf(posted[k].txn)] = <<"funding", "primary">>

(***************************************************************************)
(* What sendGroup returns, leases and errors: claims C13 - C15             *)
(***************************************************************************)
\* C13: a sendGroup that succeeds returns, one per specification and in the
\* order of the bundle, the encodings of the signed transactions, the very
\* ones it submitted (stated for groups whose members are all of a crafted
\* type).
C13_SignedTransactionsReturned ==
    ( /\ op = "sendGroup" /\ pc = "done" /\ result = "returned"
      /\ \A k \in 1..Len(req.transactions) : req.transactions[k].type \in CraftedTypes ) =>
        /\ Len(encodedTransactions) = Len(req.transactions)
        /\ Len(encodedTransactions) = Len(posted)
        /\ \A k \in 1..Len(encodedTransactions) : encodedTransactions[k] = ToBase64(posted[k])

\* the calls that reach the ledger
LedgerCalls == {"node.accountBalance", "node.params", "node.accountAsset",
                "node.accountDetail", "node.submit", "node.confirmation"}

\* a lease that is present and does not decode to 32 bytes
InvalidLease == req.lease # "" /\ parseLease(req.lease).length # 32

\* C14: transferAlgoToAddress, transferAsset and clawbackAsset called with a
\* lease that is present but not 32 bytes long make no call to the ledger, no
\* query and no submission, and do not succeed.
C14_InvalidLeaseRejectedFirst ==
    (op \in {"transferAlgoToAddress", "transferAsset", "clawbackAsset"} /\ InvalidLease) =>
        /\ Range(log) \cap LedgerCalls = {}
        /\ result # "returned"

\* the errors an operation surfaces when a step before the submission fails
NothingHappenedErrors ==
    {"VaultException", "TypeError", "NodeException", "Invalid users", "Invalid sender",
     "Invalid lease format", FailedToGetFrom("VaultException"),
     FailedToGetFrom("TypeError"), FailedToGetFrom("NodeException"),
     FailedToSign("VaultException"), FailedToSign("TypeError")}

\* C15: the error tells the caller whether anything was submitted: an error
\* that is surfaced when a step before the submission fails is not the error
\* of a run in which the node took the transaction or bundle.
C15_ErrorTellsWhetherSubmitted ==
    (pc = "done" /\ result \in NothingHappenedErrors) => "node.confirmation" \notin Range(log)

(***************************************************************************)
(* Order of a bundle: claim C16                                            *)
(***************************************************************************)
\* the bundle as built, as grouped, as signed and as posted is one list of
\* transactions in one order, and the members share one group id
C16_SameOrder ==
    Bundled =>
        /\ "group" \in Range(log) =>
              /\ Len(unSignedGroupedTxns) = Len(unSignedTxs)
              /\ \A k \in 1..Len(unSignedTxs) :
                    /\ [decodeTransaction(unSignedGroupedTxns[k]) EXCEPT !.grp = NoGroup]
                          = decodeTransaction(unSignedTxs[k])
                    /\ decodeTransaction(unSignedGroupedTxns[k]).grp # NoGroup
                    /\ decodeTransaction(unSignedGroupedTxns[k]).grp
                          = decodeTransaction(unSignedGroupedTxns[1]).grp
        /\ Len(signedTxs) <= Len(unSignedGroupedTxns)
        /\ \A k \in 1..Len(signedTxs) :
              signedTxs[k].txn = decodeTransaction(unSignedGroupedTxns[k])
        /\ Count(log, "node.submit") <= 1
        /\ "node.submit" \in Range(log) =>
              /\ posted = signedTxs
              /\ Len(posted) = Len(unSignedTxs)

\* once grouped, the bundle is not touched again; signatures are only added
C16_Fixed ==
    (Bundled /\ "group" \in Range(log)) =>
        /\ unSignedTxs' = unSignedTxs
        /\ unSignedGroupedTxns' = unSignedGroupedTxns
        /\ Len(signedTxs') >= Len(signedTxs)
        /\ SubSeq(signedTxs', 1, Len(signedTxs)) = signedTxs

\* C16: the order of the transactions of a bundle is fixed when it is built:
\* the grouped list, the signed list and the one body posted to the node hold
\* the same transactions in the same order, every member carries the same
\* group id, and nothing reorders the bundle after it is grouped.
C16_BundleOrderKept == []C16_SameOrder /\ [][C16_Fixed]_vars

C16_TwoKindsPosted ==
    /\ op = "sendGroup"
    /\ "node.confirmation" \in Range(log)
    /\ Len(posted) = 2
    /\ posted[1].txn.type = "pay"
    /\ posted[2].txn.type = "acfg"
    /\ posted[1].txn.grp = posted[2].txn.grp
    /\ posted[1].txn.grp = computeGroupId(unSignedTxs)

(***************************************************************************)
(* The opt-in scenario of transferAsset: claim C20                         *)
(***************************************************************************)
\* the receiver holds nothing of the asset and a positive amount is sent
OptInScenario == TABuilt /\ ~ledger.holding /\ req.amount > 0

\* the members of the posted bundle signed with a key of the transit mount path
SignedWith(path) == {k \in 1..Len(posted) : posted[k].sig.signer.path = path}

\* C20 as stated: with no holding and a positive amount the bundle always has
\* 3 members, 2 auxiliary ones and the transfer, the manager signing 2 of them
\* and the receiver 1.
C20_AlwaysThreeMembers ==
    OptInScenario =>
        /\ Kinds(unSignedGroupedTxns) = <<"funding", "opt-in", "primary">>
        /\ "node.submit" \in Range(log) =>
              /\ Cardinality(SignedWith(ManagersPath)) = 2
              /\ Cardinality(SignedWith(UsersPath)) = 1

\* C20 (amended): with no holding and a positive amount the bundle ends with
\* the opt-in and the transfer, preceded by a funding payment exactly when the
\* receiver's balance less its minimum is below 100000 + the minimum fee: 3
\* members with the manager signing 2 and the receiver 1 when funded, 2
\* members with the manager and the receiver signing 1 each when not.
C20_OptInThenTransfer ==
    OptInScenario =>
        LET funded == OwnedSlack < 100000 + ledger.minFee
        IN  /\ Kinds(unSignedGroupedTxns)
                  = IF funded THEN <<"funding", "opt-in", "primary">>
                              ELSE <<"opt-in", "primary">>
            /\ "node.submit" \in Range(log) =>
                  /\ Cardinality(SignedWith(ManagersPath)) = IF funded THEN 2 ELSE 1
                  /\ Cardinality(SignedWith(UsersPath)) = 1
                  /\ Len(posted) = IF funded THEN 3 ELSE 2

C20_FundedOptInConfirmed ==
    /\ OptInScenario
    /\ result = "returned"
    /\ Len(posted) = 3
    /\ SignedWith(ManagersPath) = {1, 3}
    /\ SignedWith(UsersPath) = {2}

(***************************************************************************)
(* Group ids: claim C18                                                    *)
(***************************************************************************)
\* the group id stamped on a grouped list
GroupIdOf(list) == decodeTransaction(list[1]).grp

PairwiseDistinct(list) == \A a, b \in 1..Len(list) : list[a] = list[b] => a = b

IsRearranged == Rearranged(txns, order) # txns

FundingOf(bundle) == SelectSeq(bundle, LAMBDA m : m.kind = "funding")

\* a bundle of another call was confirmed after call p first read the account
Interfered(p) == \E k \in 1..Len(applied) :
    /\ applied[k].ok
    /\ applied[k].call # p
    /\ Len(Confirmed(SubSeq(applied, 1, k))) > transfers[p].seen

\* C19: with concurrent transferAsset calls for one receiver, in every
\* interleaving of their reads and submissions: a confirmed bundle never
\* leaves the receiver below its minimum balance; a bundle is applied whole or,
\* if a member fails, not at all; each call decides on funding from the
\* account as it read it; and a bundle is rejected as under-funded only when
\* another call's bundle was confirmed in between.
C19_RaceIsHarmless ==
    /\ \A k \in 1..Len(applied) :
          /\ applied[k].ok => applied[k].after.amount >= applied[k].after.minBalance
          /\ applied[k].ok => applied[k].after.holding
          /\ ~applied[k].ok => applied[k].after = applied[k].before
          /\ applied[k].ok =>
                applied[k].after.amount
                    >= applied[k].before.amount - PlanParams.minFee
    /\ (applied # <<>> /\ applied[Len(applied)].ok) => chain.amount >= chain.minBalance
    /\ \A p \in Callers :
          /\ transfers[p].pc \in {"submit", "done"} =>
                /\ transfers[p].willPaymentTx = (Len(FundingOf(transfers[p].bundle)) = 1)
                /\ transfers[p].willPaymentTx
                      = (transfers[p].userOwnedExtraAlgo
                            < (IF transfers[p].willOptInTx THEN 100000 + PlanParams.minFee ELSE 0))
          /\ transfers[p].result = "Transaction Rejected" => Interfered(p)

\* both calls saw a shortfall, both funded it and both bundles were confirmed:
\* the receiver ends above its minimum
C19_BothFunded ==
    /\ \A p \in Callers : transfers[p].result = "returned" /\ transfers[p].willPaymentTx
    /\ chain.amount > chain.minBalance


(***************************************************************************)
(* The receiver needs nothing: claim C21                                   *)
(***************************************************************************)
\* the receiver holds the asset and its balance covers its minimum
NothingNeeded == ledger.holding /\ ledger.amount >= ledger.minBalance

\* C21: when the receiver already holds the asset and its balance is at or
\* above its minimum, transferAsset builds no auxiliary transaction: the
\* bundle has exactly one member, the primary transfer, and the one signature
\* made and submitted is the default manager's.
C21_OnlyThePrimaryTransfer ==
    (TABuilt /\ NothingNeeded) =>
        /\ Kinds(unSignedTxs) = <<"primary">>
        /\ Kinds(unSignedGroupedTxns) = <<"primary">>
        /\ Count(log, "craft") = 1
        /\ Len(signedTxs) <= 1
        /\ \A k \in 1..Len(signedTxs) :
              /\ signedTxs[k].sig.signer = VaultKey(ManagersPath, ManagerKey)
              /\ KindOf(signedTxs[k].txn) = "primary"
        /\ "node.submit" \in Range(log) => Len(posted) = 1 /\ posted = signedTxs

C21_PrimaryAloneAtMinimum ==
    /\ TABuilt
    /\ ledger.holding
    /\ ledger.amount = ledger.minBalance
    /\ result = "returned"
    /\ Len(posted) = 1
    /\ posted[1].sig.signer = VaultKey(ManagersPath, ManagerKey)


(***************************************************************************)
(* Custody failures: claim C22                                             *)
(***************************************************************************)
\* what an operation ends with when a request to the transit engine failed
CustodyErrors ==
    UNION {{VaultThrown(failure), FailedToGetFrom(VaultThrown(failure)),
            FailedToSign(VaultThrown(failure))} : failure \in VaultFailures}

\* C22: a custody transport failure during public-key retrieval or signing,
\* with or without an HTTP response, reaches the caller as the custody
\* exception that carries the upstream status, never as another error.
C22_CustodyFailureSurfaced ==
    (pc = "done" /\ result \in CustodyErrors) => result = "VaultException"


(***************************************************************************)
(* Failed state queries of transferAsset: claim C23                        *)
(***************************************************************************)
\* a query of the node failed during transferAsset
QueryFailed == op = "transferAsset" /\ "node.failed" \in Range(log)

\* the query that failed
FailedQuery == log[Len(log) - 1]

\* C23: a failed query of the node during the resolution of transferAsset
\* (balance, parameters, holding lookup other than a 404, account detail)
\* ends the operation with that error at once: it is the last call made, no
\* decision is taken from it, nothing is crafted, grouped, signed or submitted.
C23_FailedQueryAborts ==
    QueryFailed =>
        /\ pc = "done" /\ result = "NodeException"
        /\ log[Len(log)] = "node.failed" /\ Count(log, "node.failed") = 1
        /\ FailedQuery \in {"node.accountBalance", "node.params", "node.accountAsset",
                            "node.accountDetail"}
        /\ Range(log) \cap {"craft", "group", "vault.sign", "node.submit"} = {}
        /\ unSignedTxs = <<>> /\ unSignedGroupedTxns = <<>>
        /\ signedTxs = <<>> /\ posted = <<>>
        /\ willPaymentTx = FALSE
        /\ FailedQuery = "node.params" => suggested_params = NoParams
        /\ FailedQuery \in {"node.accountBalance", "node.params", "node.accountAsset"} =>
              account_asset = "unread" /\ willOptInTx = FALSE /\ userExtraAlgoNeed = 0

C23_HoldingLookupFailed ==
    /\ QueryFailed
    /\ FailedQuery = "node.accountAsset"
    /\ ledger.holding
    /\ result = "NodeException"


(***************************************************************************)
(* Ledger parameters of a bundle: claim C24                                *)
(***************************************************************************)
\* C24: all members of a bundle are crafted from the one value of the ledger
\* parameters fetched for the invocation: the parameters are asked for once,
\* and every member is valid from the round of that value for the same window.
C24_OneParametersValue ==
    Bundled =>
        /\ Count(log, "node.params") <= 1
        /\ \A k \in 1..Len(unSignedTxs) :
              /\ decodeTransaction(unSignedTxs[k]).fv = suggested_params.lastRound
              /\ decodeTransaction(unSignedTxs[k]).lv
                    = suggested_params.lastRound + ValidityWindow
        /\ \A k, l \in 1..Len(posted) :
              /\ posted[k].txn.fv = posted[l].txn.fv
              /\ posted[k].txn.lv = posted[l].txn.lv


(***************************************************************************)
(* clawbackAsset: claim C25                                                *)
(***************************************************************************)
\* C25: clawbackAsset crafts one transaction and does not group it: its sender
\* is the manager's address, its asset sender the user's address and its
\* receiver the manager's address; it is signed once, with the default manager
\* key, and submitted in one call; no key of the users' mount signs.
C25_OneClawbackByManager ==
    op = "clawbackAsset" =>
        /\ Count(log, "craft") <= 1 /\ Len(unSignedTxs) = Count(log, "craft")
        /\ "group" \notin Range(log) /\ unSignedGroupedTxns = <<>>
        /\ \A k \in 1..Len(unSignedTxs) :
              LET tx == decodeTransaction(unSignedTxs[k])
              IN  /\ tx.type = "axfer"
                  /\ tx.snd = getKey(ManagerKey, ManagersPath)
                  /\ tx.asnd = getKey(req.userId, UsersPath)
                  /\ tx.rcv = getKey(ManagerKey, ManagersPath)
                  /\ tx.asnd # tx.snd
                  /\ tx.xaid = req.assetId /\ tx.amt = req.amount
                  /\ tx.grp = NoGroup
        /\ Count(log, "vault.sign") <= 1 /\ Len(signedTxs) <= 1
        /\ \A k \in 1..Len(signedTxs) :
              /\ signedTxs[k].sig.signer = VaultKey(ManagersPath, ManagerKey)
              /\ signedTxs[k].sig.payload = unSignedTxs[k]
              /\ signedTxs[k].txn = decodeTransaction(unSignedTxs[k])
        /\ Count(log, "node.submit") <= 1
        /\ "node.submit" \in Range(log) => posted = signedTxs /\ Len(posted) = 1

C25_ClawbackConfirmed ==
    /\ op = "clawbackAsset"
    /\ result = "returned"
    /\ Len(posted) = 1
    /\ posted[1].txn.asnd = getKey("alice", UsersPath)
    /\ posted[1].txn.amt > 0


(***************************************************************************)
(* transferAlgoToAddress: claim C26                                        *)
(***************************************************************************)
\* the custody key of the declared sender of transferAlgoToAddress
DeclaredSenderKey ==
    IF req.userId = "manager" THEN VaultKey(ManagersPath, ManagerKey)
                              ELSE VaultKey(UsersPath, req.userId)

\* C26: transferAlgoToAddress crafts one payment whose sender is the address of
\* the custody public key of the declared sender and signs it with the key of
\* that identity: the default manager key exactly when the sender id is
\* "manager", the user key of the sender id otherwise; the key behind the
\* sender address and the signing key are one key.
C26_SenderKeySigns ==
    op = "transferAlgoToAddress" =>
        /\ Count(log, "craft") <= 1 /\ Len(unSignedTxs) = Count(log, "craft")
        /\ \A k \in 1..Len(unSignedTxs) :
              LET tx == decodeTransaction(unSignedTxs[k])
              IN  /\ tx.type = "pay"
                  /\ tx.snd = getKey(DeclaredSenderKey.name, DeclaredSenderKey.path)
                  /\ encodeAddress(tx.snd) = AddressOf(DeclaredSenderKey)
                  /\ tx.rcv = decodeAddress(req.to)
                  /\ tx.amt = req.amount
        /\ Len(signedTxs) <= 1
        /\ \A k \in 1..Len(signedTxs) :
              LET signer == signedTxs[k].sig.signer
              IN  /\ signer = DeclaredSenderKey
                  /\ (signer = VaultKey(ManagersPath, ManagerKey)) = (req.userId = "manager")
                  /\ getKey(signer.name, signer.path) = signedTxs[k].txn.snd
                  /\ signedTxs[k].sig.payload = unSignedTxs[k]
        /\ "node.submit" \in Range(log) => posted = signedTxs /\ Len(posted) = 1

C26_UserPaymentConfirmed ==
    /\ op = "transferAlgoToAddress"
    /\ req.userId = "alice"
    /\ result = "returned"
    /\ Len(posted) = 1
    /\ posted[1].sig.signer = VaultKey(UsersPath, "alice")
    /\ posted[1].txn.rcv = decodeAddress(ExternalAddress)


(***************************************************************************)
(* Crafting and decoding: claims C27, C28                                  *)
(***************************************************************************)
\* arguments a crafter is meant for: no negative amount, a lease of 32 bytes
\* or none
ValidCraftCall ==
    /\ craftCall.amount >= 0
    /\ craftCall.lease # "" => parseLease(craftCall.lease).length = 32

\* the sender a crafter is given: the clawback address for a clawback
GivenSender ==
    IF craftCall.crafter = "craftAssetClawbackTx" THEN craftCall.clawbackAddress
                                                  ELSE craftCall.from

InvalidFieldErrors == {"Invalid lease format"}

\* C28: a crafter called with a negative amount refuses it with the error for
\* an invalid field and returns no encoding.
C28_NegativeAmountRejected ==
    (craftCall.amount < 0 /\ craftPc # "call") =>
        /\ craftOut = NoEncoding
        /\ craftPc = "threw"
        /\ craftError \in InvalidFieldErrors


(***************************************************************************)
(* One submission per invocation: claim C29                                *)
(***************************************************************************)
\* the calls an operation makes before it submits
StepsBeforeSubmission ==
    {"vault.getKey", "node.accountBalance", "node.params", "node.accountAsset",
     "node.accountDetail", "craft", "group", "vault.sign"}

\* C29: an invocation of an operation submits to the node at most once, and
\* only when every step before it succeeded: no query failed, everything
\* crafted was signed, and nothing but the confirmation follows the
\* submission; however the submission ends (transaction id, rejection, error),
\* it is not made again.
C29_SubmittedOnceAtTheEnd ==
    /\ Count(log, "node.submit") <= 1
    /\ "node.submit" \in Range(log) =>
          /\ pc = "done"
          /\ "node.failed" \notin Range(log)
          /\ Len(signedTxs) = Len(FinalEncodings)
          /\ Count(log, "vault.sign") = Len(signedTxs)
          /\ posted = signedTxs
          /\ \A a, b \in 1..Len(log) :
                (log[a] = "node.submit" /\ log[b] \in StepsBeforeSubmission) => b < a
    /\ (pc = "done" /\ result \notin {"returned", "NodeException", "Transaction Rejected",
                                     FailedToSign("NodeException"),
                                     FailedToSign("Transaction Rejected")}) =>
          "node.submit" \notin Range(log)
    /\ pc # "done" => "node.submit" \notin Range(log)

C29_RejectedNotResubmitted ==
    /\ pc = "done"
    /\ result = "Transaction Rejected"
    /\ Count(log, "node.submit") = 1
    /\ Len(posted) >= 2


(***************************************************************************)
(* The receiver's account as one call reads it: claim C30                  *)
(***************************************************************************)
\* C30: the opt-in decision and the balance figures of one transferAsset call
\* come from one state of the receiver's account: no bundle is confirmed
\* between the read behind the one and the read behind the other.
C30_OneSnapshot ==
    \A p \in Callers :
        transfers[p].pc \in {"submit", "done"} =>
            transfers[p].seen = transfers[p].seenDetail


(***************************************************************************)
(* Funding covers the opt-in: claims C31, C32                              *)
(***************************************************************************)
\* the receiver's account after the funding payment and the opt-in of the
\* built bundle are applied, in order, to the account as it was read
FundedAmount(k) ==
    IF k \in Fundings(unSignedGroupedTxns)
    THEN decodeTransaction(unSignedGroupedTxns[k]).amt ELSE 0

OptInFee(k) ==
    IF IsOptIn(decodeTransaction(unSignedGroupedTxns[k]))
    THEN decodeTransaction(unSignedGroupedTxns[k]).fee ELSE 0

RECURSIVE BalanceAfter(_)
BalanceAfter(k) ==
    IF k = 0 THEN ledger.amount
    ELSE BalanceAfter(k - 1) + FundedAmount(k) - OptInFee(k)

MinBalanceAfter ==
    ledger.minBalance + (IF OptIns(unSignedGroupedTxns) # {} THEN 100000 ELSE 0)

\* C31: when the account at execution is the account that was read and the
\* opt-in pays the minimum fee that was read, the receiver's balance after the
\* funding payment and the opt-in is at least its new minimum balance (the old
\* one plus 100000 when an opt-in was added) and, when a funding payment was
\* built, exactly that; the funding alone already lifts it to the old minimum.
C31_FundingSuffices ==
    TABuilt =>
        /\ BalanceAfter(Len(unSignedGroupedTxns)) >= MinBalanceAfter
        /\ Fundings(unSignedGroupedTxns) # {} =>
              /\ BalanceAfter(Len(unSignedGroupedTxns)) = MinBalanceAfter
              /\ BalanceAfter(1) >= ledger.minBalance
        /\ \A k \in 1..Len(unSignedGroupedTxns) :
              OptInFee(k) \in {0, ledger.minFee}

C31_FundedToTheNewMinimum ==
    /\ TABuilt
    /\ ~ledger.holding
    /\ ledger.amount < ledger.minBalance
    /\ Len(posted) = 3
    /\ result = "returned"
    /\ BalanceAfter(3) = ledger.minBalance + 100000


\* C32: the shortfall is computed with signed arithmetic: when the receiver's
\* balance is below its minimum balance the funding payment carries
\* extraMinBalanceNeeded + (minBalance - balance), every funding payment that
\* is built has a strictly positive amount, and no amount wraps around
C32_ShortfallIsSigned ==
    TABuilt =>
        /\ ledger.amount < ledger.minBalance =>
              \E k \in Fundings(unSignedGroupedTxns) :
                  decodeTransaction(unSignedGroupedTxns[k]).amt
                      = ExtraMinBalanceNeeded + (ledger.minBalance - ledger.amount)
        /\ \A k \in Fundings(unSignedGroupedTxns) :
              /\ decodeTransaction(unSignedGroupedTxns[k]).amt > 0
              /\ decodeTransaction(unSignedGroupedTxns[k]).amt
                     <= ExtraMinBalanceNeeded + ledger.minBalance
        /\ userExtraAlgoNeed >= 0

C32_BelowMinimumFunded ==
    /\ TABuilt
    /\ ledger.holding
    /\ ledger.amount = 0
    /\ ledger.minBalance = 200000
    /\ Len(posted) = 2
    /\ IsFunding(posted[1].txn)
    /\ posted[1].txn.amt = 200000


(***************************************************************************)
(* What the polling loop absorbs and what it lets through: claims C33, C37 *)
(***************************************************************************)
\* C33: only a failing pending-status lookup is absorbed.  When the query of
\* the current round or a wait for the next round fails, waitConfirmation ends
\* there with that error, which reaches the caller of submitTransaction: no
\* query and no wait follows, the round is not advanced and the failure is
\* not counted among the lookups; and a node error leaves waitConfirmation
\* only this way, never because of a lookup.
C33_OnlyLookupFailuresAbsorbed ==
    /\ uncaught # "" =>
          /\ ppc = "done"
          /\ ~ENABLED PollNext
          /\ wc = "threw NodeException"
          /\ entry = "submitTransaction" => submitResult = "threw NodeException"
    /\ uncaught = "params" => nQueries = 0 /\ waits = <<>> /\ startRound = -1
    /\ uncaught = "wait-for-block-after" =>
          /\ Len(waits) = nQueries
          /\ currentRound = startRound + Len(waits) - 1
          /\ nFailed <= nQueries
          /\ lastResp.status = "fail" \/ PollDecision(lastResp) = "continue"
    /\ wc = "threw NodeException" => uncaught # ""
    /\ (nFailed > 0 /\ uncaught = "") => wc # "threw NodeException"

C33_WaitFailedAfterSubmission ==
    /\ entry = "submitTransaction"
    /\ uncaught = "wait-for-block-after"
    /\ nQueries = 2
    /\ nFailed = 1
    /\ submitResult = "threw NodeException"


\* C37: a pending-status response that carries both a confirmed round and a
\* pool-error ends the run as confirmed, not as rejected: the confirmed round
\* is tested first in every poll
C37_ConfirmedBeforePoolError ==
    /\ \A resp \in PendingInfos :
          (TruthyNum(resp.confirmedRound) /\ TruthyStr(resp.poolError)) =>
              PollDecision(resp) = "return"
    /\ (ConfirmedSeen /\ PoolErrorSeen) =>
          /\ wc = "returned pendingInfo"
          /\ submitResult # "threw Transaction Rejected"
          /\ entry = "submitTransaction" => submitResult = "returned txid"

C37_BothMarkersConfirmed ==
    /\ ConfirmedSeen
    /\ PoolErrorSeen
    /\ nQueries >= 2
    /\ entry = "submitTransaction"
    /\ submitResult = "returned txid"


(***************************************************************************)
(* Lease and note of the request on what is submitted: claim C34           *)
(***************************************************************************)
\* C34: an operation that accepts an optional lease and note submits a
\* primary transaction that carries the lease and the note it was given
C34_LeaseAndNoteCarried ==
    (op \in {"transferAlgoToAddress", "transferAsset", "clawbackAsset"} /\ posted # <<>>) =>
        \E k \in 1..Len(posted) :
            /\ posted[k].txn.type \in {"pay", "axfer"}
            /\ posted[k].txn.amt = req.amount
            /\ posted[k].txn.note = req.note
            /\ posted[k].txn.lx = parseLease(req.lease)


(***************************************************************************)
(* Receivers and pairing in sendGroup: claims C35, C36                     *)
(***************************************************************************)
\* a member of the request whose receiver claims an address that is not its own
ReceiverMismatch ==
    /\ op = "sendGroup"
    /\ \E k \in 1..Len(req.transactions) :
          /\ req.transactions[k].receiver # NoUser
          /\ req.transactions[k].receiver.public_address
                 # CustodyAddress(req.transactions[k].receiver)

\* C36: sendGroup validates receivers as it validates senders: when the
\* claimed address of a declared receiver differs from the address custody
\* derives for it, even with every sender genuine, the group is rejected with
\* the address-mismatch error before ledger parameters are fetched and before
\* anything is crafted, grouped, signed or submitted.
C36_ReceiverMismatchRejected ==
    ReceiverMismatch =>
        /\ Range(log) \subseteq {"vault.getKey"}
        /\ suggested_params = NoParams
        /\ unSignedTxs = <<>> /\ unSignedGroupedTxns = <<>>
        /\ signedTxs = <<>> /\ posted = <<>> /\ encodedTransactions = <<>>
        /\ pc \in {"sg_resolve", "done"}
        /\ result # "returned"
        /\ AllResolved =>
              /\ pc = "done"
              /\ result = "Invalid users"
              /\ \E k \in 1..Len(users) : users[k].actual_address # users[k].public_address

C36_SpoofedReceiverRejected ==
    /\ ReceiverMismatch
    /\ ~SenderMismatch
    /\ Len(req.transactions) = 2
    /\ req.transactions[1].receiver = Alice
    /\ req.transactions[2].receiver = AliceSpoofing
    /\ AllResolved
    /\ result = "Invalid users"

\* a sendGroup whose members are all of a type the crafting loop handles
AllCrafted ==
    /\ op = "sendGroup"
    /\ \A k \in 1..Len(req.transactions) : req.transactions[k].type \in CraftedTypes

\* C35: in a sendGroup whose members are all of type create_asset,
\* asset_transfer or algo_transfer, as many transactions are crafted as there
\* are input specifications, the i-th crafted one is sent by the sender
\* declared in the i-th specification, and the i-th grouped transaction is
\* signed with the custody identity of that same sender.
C35_SignedByDeclaredSender ==
    AllCrafted =>
        /\ "group" \in Range(log) =>
              /\ Len(unSignedTxs) = Len(req.transactions)
              /\ Len(unSignedGroupedTxns) = Len(req.transactions)
        /\ \A k \in 1..Len(unSignedTxs) :
              decodeTransaction(unSignedTxs[k]).snd
                  = decodeAddress(req.transactions[k].sender.public_address)
        /\ Len(signedTxs) <= Len(req.transactions)
        /\ \A k \in 1..Len(signedTxs) :
              /\ signedTxs[k].txn = decodeTransaction(unSignedGroupedTxns[k])
              /\ signedTxs[k].sig.signer
                     = VaultKey(PathOf(req.transactions[k].sender), req.transactions[k].sender.id)
        /\ "node.submit" \in Range(log) => Len(posted) = Len(req.transactions)

C35_TwoSendersPaired ==
    /\ AllCrafted
    /\ Len(req.transactions) = 2
    /\ req.transactions[1].sender = Manager
    /\ req.transactions[2].sender = Alice
    /\ req.transactions[1].type = "create_asset"
    /\ Len(posted) = 2
    /\ posted[2].sig.signer = VaultKey(UsersPath, "alice")
    /\ result = "returned"


(***************************************************************************)
(* Running the initialisation again: claim C38                             *)
(***************************************************************************)
Elements(seq) == {seq[k] : k \in 1..Len(seq)}

\* C38: the initialisation can be run any number of times: no run that finds
\* the seal-keys file initialises the vault, no policy and no AppRole that
\* exists is created again, and every run reaches the end of main with all
\* policies, roles and manager keys present.
C38_RerunsAreIdempotent ==
    /\ \A k \in 1..Len(journal) :
          /\ journal[k].call = "init" => journal[k].run = 1 /\ ~journal[k].existed
          /\ journal[k].call \in {"policy", "role"} => ~journal[k].existed
    /\ mainPc # "crashed"
    /\ (mainPc = "exited" /\ runs > 0) =>
          /\ server.policies = Elements(PolicyNames)
          /\ server.roles = Elements(AppRoleNames)
          /\ server.keys = Elements(ManagerKeys)

====
